---------------------------- MODULE Spec2Model ----------------------------
(***************************************************************************)
(* A model of the notification transports of hc/api/transports.py:         *)
(*   - HttpTransport._request / request / post and the raise_for_response  *)
(*     hooks of Webhook, Slack, Mattermost, Discord and Telegram;          *)
(*   - Telegram.notify (chat-id migration);                                *)
(*   - Signal.send, Signal._read_replies and Signal.notify;                *)
(*   - Group.notify;                                                       *)
(*   - Pushover.notify, Sms.notify and the is_noop methods.                *)
(*                                                                         *)
(* One notify call runs at a time (one invocation = one sequential call    *)
(* chain).  The environment chooses every HTTP response, every byte the    *)
(* signal-cli daemon sends and the duration of every socket operation.     *)
(***************************************************************************)
EXTENDS Integers, Sequences, FiniteSets, TLC

VARIABLES
    pc,             \* position of the running call
    called,         \* the entry point that was called: notify, request or send
    cls,            \* class of the transport whose notify is running
    retry,          \* HttpTransport.request: the retry argument
    tries_left,     \* the local tries_left of request() / of Signal.notify
    attempts,       \* the _request calls of the running request() call
    results,        \* results of the finished request() / Signal.send calls
    outcome,        \* what notify returned or raised
    telegram_id,    \* channel.telegram.id (channel configuration)
    updates,        \* arguments of the update_telegram_id calls of this notify
    sock,           \* Signal._read_replies: state of the socket s
    clock,          \* time.time(), counted from the call of the running send
    start,          \* Signal._read_replies: the local start
    buffer,         \* Signal._read_replies: the local buffer
    recvs,          \* bytes received by the running Signal.send call
    frames,         \* frames yielded to the running Signal.send call
    received,       \* the bytes s.recv returned to the running Signal.send call
    handed,         \* the frames _read_replies yielded in the running Signal.send call
    captcha_alerts, \* arguments of the send_signal_captcha_alert calls
    notices,        \* number of send_signal_rate_limited_notice calls
    channels,       \* Group.notify: the local channels
    is_test,        \* Group.notify: the local is_test
    error_count,    \* Group.notify: the local error_count
    calls,          \* Group.notify: the channel.notify calls made so far
    owner,          \* notification.owner of the running notify call ("unread": not looked at)
    connections_closed, \* close_old_connections() was called by this notify
    authorize_calls,    \* results of the TokenBucket.authorize_* calls of this notify
    url,            \* Pushover.notify: the url of the running post
    noop,           \* what the last is_noop call returned
    limit_notices,  \* number of profile.send_sms_limit_notice calls of this notify
    config_check,   \* what the running notify found when it checked its configuration
    event           \* Pushover.notify: flip.new_status and the channel's down priority

vars == <<pc, called, cls, retry, tries_left, attempts, results, outcome, telegram_id,
          updates, sock, clock, start, buffer, recvs, frames, received, handed,
          captcha_alerts, notices, channels, is_test, error_count, calls, owner,
          connections_closed, authorize_calls, url, noop, limit_notices, config_check,
          event>>

signalVars ==
    <<sock, clock, start, buffer, recvs, frames, received, handed, captcha_alerts, notices>>

groupVars == <<channels, is_test, error_count, calls>>

callVars ==
    <<owner, connections_closed, authorize_calls, url, noop, limit_notices, config_check,
      event>>

-----------------------------------------------------------------------------
(* Bounds and input sets *)

\* Signal.TIMEOUT
TIMEOUT == 60

\* the most bytes the daemon sends during one Signal.send call
MaxRecv == 3

\* how long one blocking socket operation may take (each within s.settimeout)
Durations == {0, 30, TIMEOUT}

\* no Pushover.notify call is running
NoEvent == [new_status |-> "", down_prio |-> ""]

\* chat ids a Telegram channel can have or be migrated to
ChatIds == {11, 12}

\* status codes the HTTP capability may return
StatusCodes == {200, 201, 202, 203, 204, 400, 404, 500}

-----------------------------------------------------------------------------
(* Errors: TransportError and its subclasses, as uniform records *)

Msg(text, code, detail) == [text |-> text, code |-> code, detail |-> detail]

NoMsg == Msg("", 0, "")

\* not an error: the call returned None
Ok ==
    [type |-> "ok", message |-> NoMsg, permanent |-> FALSE, new_chat_id |-> 0,
     token |-> "", reply |-> <<>>]

\* no result yet
Pending == [Ok EXCEPT !.type = "pending"]

TransportError(message, permanent) ==
    [type |-> "TransportError", message |-> message, permanent |-> permanent,
     new_chat_id |-> 0, token |-> "", reply |-> <<>>]

MigrationRequiredError(message, new_chat_id) ==
    [TransportError(message, TRUE) EXCEPT
        !.type = "MigrationRequiredError", !.new_chat_id = new_chat_id]

SignalRateLimitFailure(token, reply) ==
    [TransportError(Msg("CAPTCHA proof required", 0, ""), FALSE) EXCEPT
        !.type = "SignalRateLimitFailure", !.token = token, !.reply = reply]

IsError(r) == r.type \notin {"ok", "pending"}

Last(q) == q[Len(q)]

-----------------------------------------------------------------------------
(* The HTTP capability: curl.request returns a response or raises CurlError *)

\* descriptions a Telegram error payload may carry
Descriptions ==
    {"Forbidden: the group chat was deleted",
     "Forbidden: bot was blocked by the user",
     "Forbidden: user is deactivated",
     "Bad Request: chat not found"}

\* a JSON object without a "description" key
NoField == "(absent)"

\* a JSON object without a "code" key
NoCode == 0

\* the Twilio error code of an invalid phone number, and another one
ErrorCodes == {21211, 21610}

\* response bodies: plain text, or a JSON object with an optional description
\* and an optional parameters.migrate_to_chat_id (Telegram), an optional user
\* (Pushover) and an optional code (Twilio)
Contents ==
    {[json |-> FALSE, text |-> t, description |-> NoField, parameters |-> <<>>,
      user |-> "", code |-> NoCode] :
        t \in {"", "invalid_token"}}
    \cup
    {[json |-> TRUE, text |-> "", description |-> d, parameters |-> p,
      user |-> "", code |-> NoCode] :
        d \in Descriptions \cup {NoField},
        p \in {<<>>} \cup {<<c>> : c \in ChatIds}}
    \cup
    {[json |-> TRUE, text |-> "", description |-> NoField, parameters |-> <<>>,
      user |-> "invalid", code |-> NoCode]}
    \cup
    {[json |-> TRUE, text |-> "", description |-> NoField, parameters |-> <<>>,
      user |-> "", code |-> c] : c \in ErrorCodes}

NoContent ==
    [json |-> FALSE, text |-> "", description |-> NoField, parameters |-> <<>>,
     user |-> "", code |-> NoCode]

\* what one curl.request call does: a response, or CurlError (curl_error # "")
Responses ==
    {[curl_error |-> "Connection failed", status_code |-> 0, content |-> NoContent]}
    \cup
    {[curl_error |-> "", status_code |-> c, content |-> b] :
        c \in StatusCodes, b \in Contents}

-----------------------------------------------------------------------------
(* The raise_for_response hooks *)

StatusMessage(response) == Msg("Received status code", response.status_code, "")

\* HttpTransport.raise_for_response
HttpTransport_raise_for_response(response) ==
    TransportError(StatusMessage(response), FALSE)

\* Slack.raise_for_response: the permanent flag
Slack_permanent(response) ==
    IF response.status_code = 404 THEN TRUE
    ELSE IF response.status_code = 400
         THEN (~response.content.json /\ response.content.text = "invalid_token")
         ELSE FALSE

\* Slack.raise_for_response
Slack_raise_for_response(response) ==
    TransportError(StatusMessage(response), Slack_permanent(response))

\* faulty variant: Discord never classifies a response as permanent
Discord_permanent_never(response) == FALSE

\* Discord.raise_for_response: the permanent flag
Discord_permanent(response) == response.status_code = 404

\* Discord.raise_for_response
Discord_raise_for_response(response) ==
    TransportError(StatusMessage(response), Discord_permanent(response))

\* Telegram.ErrorModel.model_validate_json: the description is required, the
\* parameters are optional
Telegram_ErrorModel(content) ==
    IF content.json /\ content.description # NoField
    THEN [valid |-> TRUE, description |-> content.description,
          parameters |-> content.parameters]
    ELSE [valid |-> FALSE, description |-> NoField, parameters |-> <<>>]

\* Telegram.raise_for_response: the permanent flag of a plain error
Telegram_permanent(description) ==
    description \in {"Forbidden: the group chat was deleted",
                     "Forbidden: bot was blocked by the user",
                     "Forbidden: user is deactivated"}

\* Telegram.raise_for_response
Telegram_raise_for_response(response) ==
    LET m == Telegram_ErrorModel(response.content) IN
    IF ~m.valid THEN TransportError(StatusMessage(response), FALSE)
    ELSE IF m.parameters # <<>>
         THEN MigrationRequiredError(Msg(m.description, 0, ""), m.parameters[1])
         ELSE TransportError(
                  Msg("Received status code", response.status_code, m.description),
                  Telegram_permanent(m.description))

\* Pushover.raise_for_response: the permanent flag.  Pushover.ErrorModel
\* accepts every JSON object, user defaults to ""
Pushover_permanent(response) ==
    /\ response.status_code = 400
    /\ response.content.json
    /\ response.content.user = "invalid"

\* Pushover.raise_for_response
Pushover_raise_for_response(response) ==
    IF Pushover_permanent(response)
    THEN TransportError(Msg("Received status code", response.status_code, "(invalid user)"),
                        TRUE)
    ELSE TransportError(StatusMessage(response), FALSE)

\* Sms.raise_for_response: Sms.ErrorModel requires an integer code
Sms_raise_for_response(response) ==
    IF /\ response.status_code = 400
       /\ response.content.json
       /\ response.content.code # NoCode
       /\ response.content.code = 21211
    THEN TransportError(Msg("Invalid phone number", 0, ""), TRUE)
    ELSE TransportError(StatusMessage(response), FALSE)

\* faulty variant: the except ValidationError clause swallows the error of an
\* invalid phone number
Call_raise_for_response_swallowed(response) ==
    TransportError(StatusMessage(response), FALSE)

\* Call.raise_for_response: Call.ErrorModel requires an integer code
Call_raise_for_response(response) ==
    IF /\ response.status_code = 400
       /\ response.content.json
       /\ response.content.code # NoCode
       /\ response.content.code = 21211
    THEN TransportError(Msg("Invalid phone number", 0, ""), TRUE)
    ELSE TransportError(StatusMessage(response), FALSE)

\* WhatsApp.raise_for_response: WhatsApp.ErrorModel requires an integer code
WhatsApp_raise_for_response(response) ==
    IF /\ response.status_code = 400
       /\ response.content.json
       /\ response.content.code # NoCode
       /\ response.content.code = 21211
    THEN TransportError(Msg("Invalid phone number", 0, ""), TRUE)
    ELSE TransportError(StatusMessage(response), FALSE)

\* cls.raise_for_response: the override of the class, or the inherited hook
\* (Webhook and Mattermost define none)
raise_for_response(c, response) ==
    CASE c = "Slack" -> Slack_raise_for_response(response)
      [] c = "Discord" -> Discord_raise_for_response(response)
      [] c = "Telegram" -> Telegram_raise_for_response(response)
      [] c = "Pushover" -> Pushover_raise_for_response(response)
      [] c = "Sms" -> Sms_raise_for_response(response)
      [] c = "Call" -> Call_raise_for_response(response)
      [] c = "WhatsApp" -> WhatsApp_raise_for_response(response)
      [] OTHER -> HttpTransport_raise_for_response(response)

\* faulty variant: every 2xx status is a success
SuccessCodes_all2xx == {200, 201, 202, 203, 204}

\* the statuses _request takes for success
SuccessCodes == {200, 201, 202, 204}

\* faulty variant: the error of the hook is wrapped like a CurlError
HttpTransport_request_wrapsHook(c, response) ==
    IF response.curl_error # ""
    THEN TransportError(Msg(response.curl_error, 0, ""), FALSE)
    ELSE IF response.status_code \in SuccessCodes
         THEN Ok
         ELSE TransportError(raise_for_response(c, response).message, FALSE)

\* HttpTransport._request: Ok, or the TransportError it raises
HttpTransport_request(c, response) ==
    IF response.curl_error # ""
    THEN TransportError(Msg(response.curl_error, 0, ""), FALSE)
    ELSE IF response.status_code \in SuccessCodes
         THEN Ok
         ELSE raise_for_response(c, response)

\* faulty variant: one try too many with retry
InitialTries_four(r) == IF r THEN 4 ELSE 1

\* faulty variant: the retry argument is ignored
InitialTries_always(r) == 3

\* HttpTransport.request: tries_left = 3 if retry else 1
InitialTries(r) == IF r THEN 3 ELSE 1

\* faulty variant: the first transient error costs two tries
NextTriesLeft_skipsOne(t, permanent) ==
    IF permanent THEN 0 ELSE IF t = 3 THEN 1 ELSE t - 1

\* faulty variant: a permanent error only costs one try
NextTriesLeft_countdown(t, permanent) == t - 1

\* HttpTransport.request: tries_left = 0 if e.permanent else tries_left - 1
NextTriesLeft(t, permanent) == IF permanent THEN 0 ELSE t - 1

-----------------------------------------------------------------------------
(* The state before any notify call *)

Init ==
    /\ pc = "idle"
    /\ called = "none"
    /\ cls = "none"
    /\ retry = FALSE
    /\ tries_left = 0
    /\ attempts = <<>>
    /\ results = <<>>
    /\ outcome = Pending
    /\ telegram_id \in ChatIds
    /\ updates = <<>>
    /\ sock = "none"
    /\ clock = 0
    /\ start = 0
    /\ buffer = <<>>
    /\ recvs = 0
    /\ frames = 0
    /\ received = <<>>
    /\ handed = <<>>
    /\ captcha_alerts = <<>>
    /\ notices = 0
    /\ channels = <<>>
    /\ is_test = FALSE
    /\ error_count = 0
    /\ calls = <<>>
    /\ owner = "unread"
    /\ connections_closed = FALSE
    /\ authorize_calls = <<>>
    /\ url = ""
    /\ noop = "none"
    /\ limit_notices = 0
    /\ config_check = "unchecked"
    /\ event = NoEvent

\* notify has returned or raised: the caller records the outcome, and the next
\* notify call starts from the channel configuration this one left
Return ==
    /\ pc = "done"
    /\ pc' = "idle"
    /\ called' = "none"
    /\ cls' = "none"
    /\ retry' = FALSE
    /\ tries_left' = 0
    /\ attempts' = <<>>
    /\ results' = <<>>
    /\ outcome' = Pending
    /\ updates' = <<>>
    /\ sock' = "none"
    /\ clock' = 0
    /\ start' = 0
    /\ buffer' = <<>>
    /\ recvs' = 0
    /\ frames' = 0
    /\ received' = <<>>
    /\ handed' = <<>>
    /\ captcha_alerts' = <<>>
    /\ notices' = 0
    /\ channels' = <<>>
    /\ is_test' = FALSE
    /\ error_count' = 0
    /\ calls' = <<>>
    /\ owner' = "unread"
    /\ connections_closed' = FALSE
    /\ authorize_calls' = <<>>
    /\ url' = ""
    /\ noop' = "none"
    /\ limit_notices' = 0
    /\ config_check' = "unchecked"
    /\ event' = NoEvent
    /\ UNCHANGED telegram_id

-----------------------------------------------------------------------------
(* HttpTransport.request and the notify methods that use it *)

\* notify raises e before any network call
RaiseEarly(c, e) ==
    /\ pc' = "done"
    /\ cls' = c
    /\ outcome' = e
    /\ UNCHANGED <<retry, tries_left, attempts>>

\* notify of class c enters cls.request(..., retry=r)
StartRequest(c, r) ==
    /\ pc' = "request"
    /\ cls' = c
    /\ retry' = r
    /\ tries_left' = InitialTries(r)
    /\ attempts' = <<>>
    /\ UNCHANGED outcome

\* faulty variant: post does not retry
PostRetry_off == FALSE

\* HttpTransport.post: retry defaults to True
PostRetry == TRUE

\* faulty variant: test notifications are retried as well
WebhookRetry_always(owner_is_none) == TRUE

\* Webhook.notify: retry = notification.owner is not None
WebhookRetry(owner_is_none) == ~owner_is_none

\* Webhook.notify.  enabled is settings.WEBHOOKS_ENABLED, has_url is
\* bool(spec.url), owner_is_none is (notification.owner is None)
WebhookNotify ==
    /\ pc = "idle"
    /\ called' = "notify"
    /\ \E enabled \in BOOLEAN, has_url \in BOOLEAN, owner_is_none \in BOOLEAN :
      /\ IF ~enabled
         THEN RaiseEarly("Webhook",
                  TransportError(Msg("Webhook notifications are not enabled.", 0, ""), FALSE))
         ELSE IF ~has_url
              THEN RaiseEarly("Webhook", TransportError(Msg("Empty webhook URL", 0, ""), FALSE))
              ELSE /\ owner' = IF owner_is_none THEN "None" ELSE "Check"
                   /\ connections_closed' = TRUE
                   /\ StartRequest("Webhook", WebhookRetry(owner_is_none))
      /\ (~enabled \/ ~has_url) => UNCHANGED <<owner, connections_closed>>
      /\ config_check' = IF ~enabled THEN "disabled"
                         ELSE IF ~has_url THEN "empty-url" ELSE "ok"
    /\ UNCHANGED <<results, telegram_id, updates, signalVars, groupVars,
                   authorize_calls, url, noop, limit_notices, event>>

\* Slack.notify.  enabled is settings.SLACK_ENABLED, owner_is_none is
\* (notification.owner is None), which Slack.notify does not look at
SlackNotify ==
    /\ pc = "idle"
    /\ called' = "notify"
    /\ \E enabled \in BOOLEAN, owner_is_none \in BOOLEAN :
         /\ owner' = IF owner_is_none THEN "None" ELSE "Check"
         /\ IF ~enabled
            THEN RaiseEarly("Slack",
                     TransportError(Msg("Slack notifications are not enabled.", 0, ""), FALSE))
            ELSE StartRequest("Slack", PostRetry)
         /\ config_check' = IF enabled THEN "ok" ELSE "disabled"
    /\ UNCHANGED <<results, telegram_id, updates, signalVars, groupVars,
                   connections_closed, authorize_calls, url, noop, limit_notices,
                   event>>

\* Mattermost.notify.  enabled is settings.MATTERMOST_ENABLED
MattermostNotify ==
    /\ pc = "idle"
    /\ called' = "notify"
    /\ \E enabled \in BOOLEAN :
         /\ IF ~enabled
            THEN RaiseEarly("Mattermost",
                     TransportError(Msg("Mattermost notifications are not enabled.", 0, ""),
                                    FALSE))
            ELSE StartRequest("Mattermost", PostRetry)
         /\ connections_closed' = enabled
         /\ config_check' = IF enabled THEN "ok" ELSE "disabled"
    /\ UNCHANGED <<results, telegram_id, updates, signalVars, groupVars, owner,
                   authorize_calls, url, noop, limit_notices, event>>

\* Discord.notify
DiscordNotify ==
    /\ pc = "idle"
    /\ called' = "notify"
    /\ connections_closed' = TRUE
    /\ StartRequest("Discord", PostRetry)
    /\ UNCHANGED <<results, telegram_id, updates, signalVars, groupVars, owner,
                   authorize_calls, url, noop, limit_notices, config_check, event>>

\* faulty variant: the message is sent although the rate limiter refused
TelegramNotify_sendsAnyway ==
    /\ pc = "idle"
    /\ called' = "notify"
    /\ \E authorized \in BOOLEAN :
         /\ authorize_calls' = Append(authorize_calls, authorized)
         /\ StartRequest("Telegram", PostRetry)
    /\ UNCHANGED <<results, telegram_id, updates, signalVars, groupVars, owner,
                   connections_closed, url, noop, limit_notices, config_check, event>>

\* Telegram.notify up to the first self.send.  authorized is the result of
\* TokenBucket.authorize_telegram
TelegramNotify ==
    /\ pc = "idle"
    /\ called' = "notify"
    /\ \E authorized \in BOOLEAN :
         /\ authorize_calls' = Append(authorize_calls, authorized)
         /\ IF ~authorized
            THEN RaiseEarly("Telegram",
                     TransportError(Msg("Rate limit exceeded", 0, ""), FALSE))
            ELSE StartRequest("Telegram", PostRetry)
    /\ UNCHANGED <<results, telegram_id, updates, signalVars, groupVars, owner,
                   connections_closed, url, noop, limit_notices, config_check, event>>

\* the classes whose request classmethod is modelled
HttpClasses == {"Webhook", "Slack", "Mattermost", "Discord", "Telegram"}

\* cls.request(method, url, retry=r) called on its own, by a caller other than
\* the notify methods above
RequestCall ==
    /\ pc = "idle"
    /\ called' = "request"
    /\ \E c \in HttpClasses, r \in BOOLEAN : StartRequest(c, r)
    /\ UNCHANGED <<results, telegram_id, updates, signalVars, groupVars, callVars>>

\* faulty variant: the re-send is guarded by the except clause too
CaughtForMigration_everySend(c, sent, e) ==
    /\ called = "notify"
    /\ c = "Telegram"
    /\ e.type = "MigrationRequiredError"

\* faulty variant: the except clause catches every error
CaughtForMigration_anyError(c, sent, e) ==
    /\ called = "notify"
    /\ c = "Telegram"
    /\ sent = <<>>
    /\ IsError(e)

\* faulty variant: the except clause catches every permanent error
CaughtForMigration_anyPermanent(c, sent, e) ==
    /\ called = "notify"
    /\ c = "Telegram"
    /\ sent = <<>>
    /\ e.permanent

\* Telegram.notify: does the except clause around the first send catch e?
CaughtForMigration(c, sent, e) ==
    /\ called = "notify"
    /\ c = "Telegram"
    /\ sent = <<>>
    /\ e.type = "MigrationRequiredError"

\* faulty variant: the message call follows a failed cancel call as well
CancelSent_always(c, u, r) == c = "Pushover" /\ u = "cancel"

\* Pushover.notify: the post that returned was the cancel call, the message
\* call follows
CancelSent(c, u, r) == c = "Pushover" /\ u = "cancel" /\ ~IsError(r)

\* the classes that post to Twilio and define an ErrorModel
TwilioClasses == {"Sms", "Call", "WhatsApp"}

\* the code that cls.ErrorModel.model_validate_json(response.content,
\* strict=True) finds in the body of a response (NoCode: ValidationError, no
\* response, or a class without ErrorModel)
ErrorModelCode(c, response) ==
    IF c \in TwilioClasses /\ response.curl_error = "" /\ response.content.json
    THEN response.content.code
    ELSE NoCode

\* the payload's chat_id of a _request call (0: the class sends none)
ChatIdOf(c) == IF c = "Telegram" THEN telegram_id ELSE 0

\* One pass of the loop of HttpTransport.request: _request, and on a
\* TransportError the except clause; when request returns or raises, the
\* notify that called it goes on.
HttpAttempt ==
    /\ pc = "request"
    /\ \E response \in Responses :
         LET r == HttpTransport_request(cls, response)
             entry == [chat_id |-> ChatIdOf(cls),
                       status_code |-> response.status_code,
                       code |-> ErrorModelCode(cls, response),
                       result |-> r]
             t == IF IsError(r) THEN NextTriesLeft(tries_left, r.permanent)
                  ELSE tries_left
         IN  /\ attempts' = Append(attempts, entry)
             /\ tries_left' = t
             /\ IF IsError(r) /\ t # 0
                THEN UNCHANGED <<pc, results, outcome>>
                ELSE /\ results' = Append(results, r)
                     /\ IF CaughtForMigration(cls, results, r)
                        THEN pc' = "except" /\ UNCHANGED outcome
                        ELSE IF CancelSent(cls, url, r)
                             THEN pc' = "cancelled" /\ UNCHANGED outcome
                             ELSE pc' = "done" /\ outcome' = r
    /\ UNCHANGED <<called, cls, retry, telegram_id, updates, signalVars, groupVars, callVars>>

\* faulty variant: the re-send asks the rate limiter again
TelegramMigrate_authorizes ==
    /\ pc = "except"
    /\ LET e == results[Len(results)] IN
         /\ telegram_id' = e.new_chat_id
         /\ updates' = Append(updates, e.new_chat_id)
    /\ StartRequest("Telegram", PostRetry)
    /\ authorize_calls' = Append(authorize_calls, TRUE)
    /\ UNCHANGED <<called, results, signalVars, groupVars, owner, connections_closed,
                   url, noop, limit_notices, config_check, event>>

\* Telegram.notify, the except MigrationRequiredError clause:
\* update_telegram_id(e.new_chat_id), then self.send again
TelegramMigrate ==
    /\ pc = "except"
    /\ LET e == results[Len(results)] IN
         /\ telegram_id' = e.new_chat_id
         /\ updates' = Append(updates, e.new_chat_id)
    /\ StartRequest("Telegram", PostRetry)
    /\ UNCHANGED <<called, results, signalVars, groupVars, callVars>>

Next ==
    \/ WebhookNotify
    \/ SlackNotify
    \/ MattermostNotify
    \/ DiscordNotify
    \/ TelegramNotify
    \/ RequestCall
    \/ HttpAttempt
    \/ TelegramMigrate
    \/ Return

Spec == Init /\ [][Next]_vars

-----------------------------------------------------------------------------
(* Signal: the wire format *)

\* What one s.recv(1) can return.  A reply line is abstracted to tokens, one
\* per recv: "o" opens a JSON object with no id or another request's id, "i"
\* opens one with the id of the outstanding request, "E" is its error member
\* (code 5, no data unless results follow), "U" a result of type
\* UNREGISTERED_FAILURE, "Ra" and "Rb" results of type RATE_LIMIT_FAILURE with
\* the tokens "a" and "b"; "\n" ends the line.
Tokens == {"o", "i", "E", "U", "Ra", "Rb"}

Newline == "\n"

\* recv returns b"" at end-of-stream
EndOfStream == ""

Bytes == Tokens \cup {Newline}

\* b"".join(buffer): the empty chunk adds nothing
RECURSIVE Join(_)
Join(chunks) ==
    IF chunks = <<>> THEN <<>>
    ELSE IF chunks[1] = EndOfStream THEN Join(Tail(chunks))
         ELSE <<chunks[1]>> \o Join(Tail(chunks))

\* the id Signal.send puts in the payload: str(uuid.uuid4()), new for each call
RequestId == "uuid4"

\* the entries of error.data.response.results on the wire: the ones the socket
\* model sends, RATE_LIMIT_FAILURE without a token ("R") and a result of
\* another type ("N")
ResultTokens == {"U", "Ra", "Rb", "R", "N"}

\* one entry of error.data.response.results
SignalResult(token) ==
    CASE token = "U" -> [type |-> "UNREGISTERED_FAILURE", token |-> ""]
      [] token = "Ra" -> [type |-> "RATE_LIMIT_FAILURE", token |-> "a"]
      [] token = "Rb" -> [type |-> "RATE_LIMIT_FAILURE", token |-> "b"]
      [] token = "R" -> [type |-> "RATE_LIMIT_FAILURE", token |-> ""]
      [] token = "N" -> [type |-> "NETWORK_FAILURE", token |-> ""]

\* a line without its trailing newline (JSON ignores trailing whitespace)
Stripped(line) ==
    IF line # <<>> /\ Last(line) = Newline THEN SubSeq(line, 1, Len(line) - 1)
    ELSE line

\* Signal.Reply.model_validate_json: an object, optionally with an error
\* member, whose results, if any, follow it; anything else fails validation
Reply_model_validate_json(reply_bytes) ==
    LET body == Stripped(reply_bytes)
        wellFormed ==
            /\ body # <<>>
            /\ body[1] \in {"o", "i"}
            /\ Len(body) >= 2 => body[2] = "E"
            /\ \A k \in 3..Len(body) : body[k] \in ResultTokens
    IN  IF ~wellFormed
        THEN [valid |-> FALSE, id |-> "", has_error |-> FALSE, code |-> 0,
              results |-> <<>>]
        ELSE [valid |-> TRUE,
              id |-> IF body[1] = "i" THEN RequestId ELSE "",
              has_error |-> Len(body) >= 2,
              code |-> IF Len(body) >= 2 THEN 5 ELSE 0,
              results |-> [k \in 1..(Len(body) - 2) |-> SignalResult(body[k + 2])]]

\* faulty variant: an UNREGISTERED_FAILURE anywhere in the list goes before a
\* rate limit
RECURSIVE ScanResults_unregisteredFirst(_, _)
ScanResults_unregisteredFirst(rs, reply_bytes) ==
    IF \E k \in 1..Len(rs) : rs[k].type = "UNREGISTERED_FAILURE"
    THEN TransportError(Msg("Recipient not found", 0, ""), TRUE)
    ELSE IF rs = <<>> THEN Ok
         ELSE IF rs[1].type = "RATE_LIMIT_FAILURE" /\ rs[1].token # ""
              THEN SignalRateLimitFailure(rs[1].token, reply_bytes)
              ELSE ScanResults_unregisteredFirst(Tail(rs), reply_bytes)

\* Signal.send, the loop over reply.get_results(): the first result that
\* raises decides; Ok when none does
RECURSIVE ScanResults(_, _)
ScanResults(rs, reply_bytes) ==
    IF rs = <<>> THEN Ok
    ELSE IF rs[1].type = "UNREGISTERED_FAILURE"
         THEN TransportError(Msg("Recipient not found", 0, ""), TRUE)
         ELSE IF rs[1].type = "RATE_LIMIT_FAILURE" /\ rs[1].token # ""
              THEN SignalRateLimitFailure(rs[1].token, reply_bytes)
              ELSE ScanResults(Tail(rs), reply_bytes)

\* faulty variant: the id of the reply is not compared with the request's
HandleReply_anyId(reply_bytes) ==
    LET reply == Reply_model_validate_json(reply_bytes) IN
    IF ~reply.valid
    THEN [do |-> "raise",
          error |-> TransportError(
                        Msg("signal-cli call failed (unexpected response)", 0, ""), FALSE)]
    ELSE IF ~reply.has_error THEN [do |-> "break", error |-> Ok]
    ELSE LET e == ScanResults(reply.results, reply_bytes) IN
         IF IsError(e) THEN [do |-> "raise", error |-> e]
         ELSE [do |-> "raise",
               error |-> TransportError(Msg("signal-cli call failed", reply.code, ""), FALSE)]

\* faulty variant: after a success the loop goes on reading
HandleReply_readsOn(reply_bytes) ==
    LET reply == Reply_model_validate_json(reply_bytes) IN
    IF ~reply.valid
    THEN [do |-> "raise",
          error |-> TransportError(
                        Msg("signal-cli call failed (unexpected response)", 0, ""), FALSE)]
    ELSE IF reply.id # RequestId THEN [do |-> "continue", error |-> Ok]
    ELSE IF ~reply.has_error THEN [do |-> "continue", error |-> Ok]
    ELSE LET e == ScanResults(reply.results, reply_bytes) IN
         IF IsError(e) THEN [do |-> "raise", error |-> e]
         ELSE [do |-> "raise",
               error |-> TransportError(Msg("signal-cli call failed", reply.code, ""), FALSE)]

\* faulty variant: the empty frame is skipped
HandleReply_skipsEmpty(reply_bytes) ==
    LET reply == Reply_model_validate_json(reply_bytes) IN
    IF reply_bytes = <<>> THEN [do |-> "continue", error |-> Ok]
    ELSE IF ~reply.valid
    THEN [do |-> "raise",
          error |-> TransportError(
                        Msg("signal-cli call failed (unexpected response)", 0, ""), FALSE)]
    ELSE IF reply.id # RequestId THEN [do |-> "continue", error |-> Ok]
    ELSE IF ~reply.has_error THEN [do |-> "break", error |-> Ok]
    ELSE LET e == ScanResults(reply.results, reply_bytes) IN
         IF IsError(e) THEN [do |-> "raise", error |-> e]
         ELSE [do |-> "raise",
               error |-> TransportError(Msg("signal-cli call failed", reply.code, ""), FALSE)]

\* faulty variant: a frame that fails to decode is skipped
HandleReply_skipsInvalid(reply_bytes) ==
    LET reply == Reply_model_validate_json(reply_bytes) IN
    IF ~reply.valid
    THEN [do |-> "continue", error |-> Ok]
    ELSE IF reply.id # RequestId THEN [do |-> "continue", error |-> Ok]
    ELSE IF ~reply.has_error THEN [do |-> "break", error |-> Ok]
    ELSE LET e == ScanResults(reply.results, reply_bytes) IN
         IF IsError(e) THEN [do |-> "raise", error |-> e]
         ELSE [do |-> "raise",
               error |-> TransportError(Msg("signal-cli call failed", reply.code, ""), FALSE)]

\* Signal.send, the body of the loop over the replies, for one reply:
\* "continue" (the id differs), "break" (success), or "raise" with an error
HandleReply(reply_bytes) ==
    LET reply == Reply_model_validate_json(reply_bytes) IN
    IF ~reply.valid
    THEN [do |-> "raise",
          error |-> TransportError(
                        Msg("signal-cli call failed (unexpected response)", 0, ""), FALSE)]
    ELSE IF reply.id # RequestId THEN [do |-> "continue", error |-> Ok]
    ELSE IF ~reply.has_error THEN [do |-> "break", error |-> Ok]
    ELSE LET e == ScanResults(reply.results, reply_bytes) IN
         IF IsError(e) THEN [do |-> "raise", error |-> e]
         ELSE [do |-> "raise",
               error |-> TransportError(Msg("signal-cli call failed", reply.code, ""), FALSE)]

-----------------------------------------------------------------------------
(* Signal.notify, Signal.send and Signal._read_replies *)

\* Signal.notify: tries_left = 2
SignalTries == 2

\* what str(e) of an OSError can be; socket.timeout is an OSError
OSErrors == {"timed out", "Connection refused"}

\* faulty variant: the text of the OS error is left out of the message
OSErrorTransportError_sanitized(text) ==
    TransportError(Msg("signal-cli call failed", 0, ""), FALSE)

\* _read_replies, except OSError: the error it raises instead
OSErrorTransportError(text) ==
    TransportError(Msg("signal-cli call failed", 0, text), FALSE)

\* _read_replies: time.time() - start > cls.TIMEOUT
TimedOut(now, st) == now - st > TIMEOUT

\* faulty variant: a rate-limited send is retried like any other failure
NotifyHandler_retryRateLimit(e, t) ==
    IF e.permanent \/ t - 1 = 0 THEN "raise" ELSE "retry"

\* faulty variant: a permanent error is retried like a transient one
NotifyHandler_retryPermanent(e, t) ==
    IF e.type = "SignalRateLimitFailure" THEN "alert"
    ELSE IF t - 1 = 0 THEN "raise" ELSE "retry"

\* Signal.notify, the except clauses around self.send for the error e with t
\* tries left: "alert" (SignalRateLimitFailure: both alerts, then raise e),
\* "raise" or "retry"
NotifyHandler(e, t) ==
    IF e.type = "SignalRateLimitFailure" THEN "alert"
    ELSE IF e.permanent \/ t - 1 = 0 THEN "raise" ELSE "retry"

\* faulty variant: the alert gets the token but not the reply
CaptchaAlert_noReply(e) == [token |-> e.token, reply |-> <<>>]

\* Signal.notify: the arguments of send_signal_captcha_alert (e.reply.decode()
\* is kept as the bytes it decodes)
CaptchaAlert(e) == [token |-> e.token, reply |-> e.reply]

\* faulty variant: the buffer of the previous send call is kept
EnterSend_keepsBuffer ==
    /\ pc' = "connect"
    /\ sock' = "open"
    /\ clock' = 0
    /\ start' = clock'
    /\ buffer' = buffer
    /\ recvs' = 0
    /\ frames' = 0
    /\ received' = <<>>
    /\ handed' = <<>>

\* Signal.send is called and enters _read_replies: start = time.time(), the
\* socket is created.  Only differences of time.time() are ever used, so the
\* clock is read from the moment of this call on.
EnterSend ==
    /\ pc' = "connect"
    /\ sock' = "open"
    /\ clock' = 0
    /\ start' = clock'
    /\ buffer' = <<>>
    /\ recvs' = 0
    /\ frames' = 0
    /\ received' = <<>>
    /\ handed' = <<>>

\* Signal.send returns (r = Ok) or raises r at time now, which closes the
\* socket; Signal.notify returns, raises or tries again
SendEnds(r, now, buf, nframes, hnd) ==
    /\ results' = Append(results, r)
    /\ IF ~IsError(r)
       THEN /\ pc' = "done"
            /\ outcome' = r
            /\ sock' = "closed"
            /\ clock' = now
            /\ buffer' = buf
            /\ frames' = nframes
            /\ handed' = hnd
            /\ UNCHANGED <<tries_left, captcha_alerts, notices, start, recvs, received>>
       ELSE LET h == NotifyHandler(r, tries_left) IN
            /\ tries_left' = IF h = "alert" THEN tries_left ELSE tries_left - 1
            /\ captcha_alerts' =
                  IF h = "alert" THEN Append(captcha_alerts, CaptchaAlert(r))
                  ELSE captcha_alerts
            /\ notices' = IF h = "alert" THEN notices + 1 ELSE notices
            /\ IF h = "retry"
               THEN EnterSend /\ UNCHANGED outcome
               ELSE /\ pc' = "done"
                    /\ outcome' = r
                    /\ sock' = "closed"
                    /\ clock' = now
                    /\ buffer' = buf
                    /\ frames' = nframes
                    /\ handed' = hnd
                    /\ UNCHANGED <<start, recvs, received>>

\* Signal.notify up to the first self.send.  configured is
\* bool(settings.SIGNAL_CLI_SOCKET), authorized the result of
\* TokenBucket.authorize_signal
SignalNotify ==
    /\ pc = "idle"
    /\ called' = "notify"
    /\ cls' = "Signal"
    /\ \E configured \in BOOLEAN, authorized \in BOOLEAN :
       /\ config_check' = IF configured THEN "ok" ELSE "disabled"
       /\ authorize_calls' =
             IF configured THEN Append(authorize_calls, authorized) ELSE authorize_calls
       /\ IF ~configured \/ ~authorized
          THEN /\ pc' = "done"
               /\ outcome' =
                     IF ~configured
                     THEN TransportError(Msg("Signal notifications are not enabled", 0, ""), FALSE)
                     ELSE TransportError(Msg("Rate limit exceeded", 0, ""), FALSE)
               /\ UNCHANGED <<tries_left, sock, clock, start, buffer, recvs, frames,
                              received, handed>>
          ELSE /\ tries_left' = SignalTries
               /\ EnterSend
               /\ UNCHANGED outcome
    /\ UNCHANGED <<retry, attempts, results, telegram_id, updates,
                   captcha_alerts, notices, groupVars, owner, connections_closed,
                   url, noop, limit_notices, event>>

\* a socket operation at position at, taking a time in D: it completes, going
\* on at position next with the socket in state s, or raises OSError
\* (socket.timeout after the whole TIMEOUT)
SocketOp(at, next, s, D) ==
    /\ pc = at
    /\ \E d \in D :
         /\ \/ /\ clock' = clock + d
               /\ pc' = next
               /\ sock' = s
               /\ buffer' = <<>>
               /\ UNCHANGED <<tries_left, results, outcome, start, recvs, frames,
                              received, handed, captcha_alerts, notices>>
            \/ \E text \in OSErrors :
                 /\ text = "timed out" <=> d = TIMEOUT
                 /\ SendEnds(OSErrorTransportError(text), clock + d, buffer, frames, handed)
    /\ UNCHANGED <<called, cls, retry, attempts, telegram_id, updates, groupVars, callVars>>

\* s.connect(address)
SockConnect ==
    /\ sock = "open"
    /\ SocketOp("connect", "sendall", "connected", Durations)

\* faulty variant: reading starts without the write side being shut down
SockSendall_readsNext ==
    /\ sock = "connected"
    /\ SocketOp("sendall", "recv", "connected", Durations)

\* s.sendall(payload_bytes)
SockSendall ==
    /\ sock = "connected"
    /\ SocketOp("sendall", "shutdown", "connected", Durations)

\* s.shutdown(socket.SHUT_WR), which does not block, then buffer = []
SockShutdown ==
    /\ sock = "connected"
    /\ SocketOp("shutdown", "recv", "half-closed", {0})

\* ch = s.recv(1); buffer.append(ch).  The daemon sends a byte, closes its side
\* (every later recv returns b"" at once), or the call raises OSError.
SockRecv ==
    /\ pc = "recv"
    /\ \E d \in Durations :
         /\ clock' = clock + d
         /\ \/ \E ch \in Bytes :
                 /\ sock = "half-closed"
                 /\ recvs < MaxRecv
                 /\ buffer' = Append(buffer, ch)
                 /\ recvs' = recvs + 1
                 /\ received' = Append(received, ch)
                 /\ pc' = IF ch = Newline THEN "yield" ELSE "check"
                 /\ UNCHANGED sock
            \/ /\ sock = "peer-closed" => d = 0
               /\ buffer' = Append(buffer, EndOfStream)
               /\ sock' = "peer-closed"
               /\ pc' = "yield"
               /\ UNCHANGED <<recvs, received>>
         /\ UNCHANGED <<tries_left, results, outcome, start, frames, handed,
                        captcha_alerts, notices>>
    /\ UNCHANGED <<called, cls, retry, attempts, telegram_id, updates, groupVars, callVars>>

\* s.recv(1) raises OSError
SockRecvFails ==
    /\ pc = "recv"
    /\ sock = "half-closed"
    /\ \E d \in Durations, text \in OSErrors :
         /\ text = "timed out" <=> d = TIMEOUT
         /\ SendEnds(OSErrorTransportError(text), clock + d, buffer, frames, handed)
    /\ UNCHANGED <<called, cls, retry, attempts, telegram_id, updates, groupVars, callVars>>

\* faulty variant: the buffer is not reset after a frame
YieldReply_keepsBuffer ==
    /\ pc = "yield"
    /\ LET reply_bytes == Join(buffer)
           h == HandleReply(reply_bytes)
       IN  IF h.do = "continue"
           THEN /\ buffer' = buffer
                /\ frames' = frames + 1
                /\ handed' = Append(handed, reply_bytes)
                /\ pc' = "check"
                /\ UNCHANGED <<tries_left, results, outcome, sock, clock, start,
                               recvs, received, captcha_alerts, notices>>
           ELSE SendEnds(h.error, clock, buffer, frames + 1, Append(handed, reply_bytes))
    /\ UNCHANGED <<called, cls, retry, attempts, telegram_id, updates, groupVars, callVars>>

\* faulty variant: the elapsed time is checked before the frame is handed over
YieldReply_checksFirst ==
    /\ pc = "yield"
    /\ LET reply_bytes == Join(buffer)
           h == HandleReply(reply_bytes)
       IN  IF TimedOut(clock, start)
           THEN SendEnds(TransportError(Msg("signal-cli call timed out", 0, ""), FALSE),
                         clock, buffer, frames, handed)
           ELSE IF h.do = "continue"
           THEN /\ buffer' = <<>>
                /\ frames' = frames + 1
                /\ handed' = Append(handed, reply_bytes)
                /\ pc' = "check"
                /\ UNCHANGED <<tries_left, results, outcome, sock, clock, start,
                               recvs, received, captcha_alerts, notices>>
           ELSE SendEnds(h.error, clock, buffer, frames + 1, Append(handed, reply_bytes))
    /\ UNCHANGED <<called, cls, retry, attempts, telegram_id, updates, groupVars, callVars>>

\* yield b"".join(buffer): the body of the loop of Signal.send runs on the
\* reply; on "continue" the generator goes on with buffer = []
YieldReply ==
    /\ pc = "yield"
    /\ LET reply_bytes == Join(buffer)
           h == HandleReply(reply_bytes)
       IN  IF h.do = "continue"
           THEN /\ buffer' = <<>>
                /\ frames' = frames + 1
                /\ handed' = Append(handed, reply_bytes)
                /\ pc' = "check"
                /\ UNCHANGED <<tries_left, results, outcome, sock, clock, start,
                               recvs, received, captcha_alerts, notices>>
           ELSE SendEnds(h.error, clock, buffer, frames + 1, Append(handed, reply_bytes))
    /\ UNCHANGED <<called, cls, retry, attempts, telegram_id, updates, groupVars, callVars>>

\* if time.time() - start > cls.TIMEOUT: raise TransportError(...)
TimeCheck ==
    /\ pc = "check"
    /\ IF TimedOut(clock, start)
       THEN SendEnds(TransportError(Msg("signal-cli call timed out", 0, ""), FALSE),
                     clock, buffer, frames, handed)
       ELSE /\ pc' = "recv"
            /\ UNCHANGED <<tries_left, results, outcome, sock, clock, start, buffer,
                           recvs, frames, received, handed, captcha_alerts, notices>>
    /\ UNCHANGED <<called, cls, retry, attempts, telegram_id, updates, groupVars, callVars>>

NextSignal ==
    \/ SignalNotify
    \/ SockConnect
    \/ SockSendall
    \/ SockShutdown
    \/ SockRecv
    \/ SockRecvFails
    \/ YieldReply
    \/ TimeCheck
    \/ Return

SpecSignal == Init /\ [][NextSignal]_vars

-----------------------------------------------------------------------------
(* Signal.send on one reply line *)

\* the largest number of results in a reply
MaxResults == 3

RECURSIVE ResultLists(_)
ResultLists(n) ==
    IF n = 0 THEN {<<>>}
    ELSE LET shorter == ResultLists(n - 1) IN
         shorter \cup {Append(rs, t) : rs \in shorter, t \in ResultTokens}

\* the error replies of the daemon, with the id of the request or another one
ErrorReplies ==
    {<<h, "E">> \o rs \o <<Newline>> : h \in {"o", "i"}, rs \in ResultLists(MaxResults)}

\* Signal.send has received the reply line in buffer
InitScan ==
    /\ pc = "yield"
    /\ called = "send"
    /\ cls = "Signal"
    /\ retry = FALSE
    /\ tries_left = 0
    /\ attempts = <<>>
    /\ results = <<>>
    /\ outcome = Pending
    /\ telegram_id \in ChatIds
    /\ updates = <<>>
    /\ sock = "half-closed"
    /\ clock = 0
    /\ start = 0
    /\ buffer \in ErrorReplies
    /\ recvs = Len(buffer)
    /\ frames = 0
    /\ received = buffer
    /\ handed = <<>>
    /\ captcha_alerts = <<>>
    /\ notices = 0
    /\ channels = <<>>
    /\ is_test = FALSE
    /\ error_count = 0
    /\ calls = <<>>
    /\ owner = "unread"
    /\ connections_closed = FALSE
    /\ authorize_calls = <<>>
    /\ url = ""
    /\ noop = "none"
    /\ limit_notices = 0
    /\ config_check = "unchecked"
    /\ event = NoEvent

\* the body of the loop of Signal.send runs on the reply line
SendHandlesReply ==
    /\ pc = "yield"
    /\ called = "send"
    /\ LET h == HandleReply(Join(buffer)) IN
         /\ frames' = frames + 1
         /\ IF h.do = "continue"
            THEN pc' = "check" /\ UNCHANGED <<results, outcome>>
            ELSE /\ pc' = "done"
                 /\ results' = Append(results, h.error)
                 /\ outcome' = h.error
    /\ UNCHANGED <<called, cls, retry, tries_left, attempts, telegram_id, updates,
                   sock, clock, start, buffer, recvs, received, handed, captcha_alerts,
                   notices,
                   groupVars, callVars>>

SpecScan == InitScan /\ [][SendHandlesReply]_vars

-----------------------------------------------------------------------------
(* Group.notify *)

\* the largest number of sub-channels of a group
MaxGroup == 3

\* what channel.notify returns to Group.notify: "" after a delivery, "no-op"
\* when the sub-channel had nothing to send, otherwise an error message, that
\* of a transient failure or that of a permanent one ("Invalid phone number")
ChannelErrors ==
    {"", "no-op", "Received status code 500", "Rate limit exceeded", "Invalid phone number"}

\* the messages of ChannelErrors that come from a permanent failure
PermanentChannelErrors == {"Invalid phone number"}

\* faulty variant: a no-op counts as a failure
CountsAsError_noop(error) == error # ""

\* if error and error != "no-op"
CountsAsError(error) == error # "" /\ error # "no-op"

\* f"{error_count} out of {len(channels)} notifications failed"
GroupMessage(count, chs) ==
    ToString(count) \o " out of " \o ToString(Len(chs)) \o " notifications failed"

\* faulty variant: a single failure is tolerated
GroupRaises_several(count) == count > 1

\* if error_count
GroupRaises(count) == count # 0

\* faulty variant: the aggregate error is permanent when every failure was
GroupOutcome_permanent(count, chs) ==
    IF GroupRaises(count)
    THEN TransportError(Msg(GroupMessage(count, chs), 0, ""),
                        \A i \in 1..Len(calls') :
                            CountsAsError(calls'[i].error) =>
                                calls'[i].error \in PermanentChannelErrors)
    ELSE Ok

\* the end of Group.notify, after the loop over channels
GroupOutcome(count, chs) ==
    IF GroupRaises(count)
    THEN TransportError(Msg(GroupMessage(count, chs), 0, ""), FALSE)
    ELSE Ok

\* faulty variant: the sub-channels are never told of a test
GroupNotify_neverTest ==
    /\ pc = "idle"
    /\ called' = "notify"
    /\ cls' = "Group"
    /\ \E n \in 0..MaxGroup, owner_is_none \in BOOLEAN :
         /\ owner' = IF owner_is_none THEN "None" ELSE "Check"
         /\ channels' = [i \in 1..n |-> i]
         /\ is_test' = FALSE
         /\ error_count' = 0
         /\ calls' = <<>>
         /\ IF n = 0
            THEN pc' = "done" /\ outcome' = GroupOutcome(0, <<>>)
            ELSE pc' = "group" /\ UNCHANGED outcome
    /\ UNCHANGED <<retry, tries_left, attempts, results, telegram_id, updates,
                   signalVars, connections_closed, authorize_calls, url, noop,
                   limit_notices, config_check, event>>

\* Group.notify up to the first channel.notify.  n is the number of channels in
\* self.channel.group_channels, owner_is_none is notification.owner is None
GroupNotify ==
    /\ pc = "idle"
    /\ called' = "notify"
    /\ cls' = "Group"
    /\ \E n \in 0..MaxGroup, owner_is_none \in BOOLEAN :
         /\ owner' = IF owner_is_none THEN "None" ELSE "Check"
         /\ channels' = [i \in 1..n |-> i]
         /\ is_test' = owner_is_none
         /\ error_count' = 0
         /\ calls' = <<>>
         /\ IF n = 0
            THEN pc' = "done" /\ outcome' = GroupOutcome(0, <<>>)
            ELSE pc' = "group" /\ UNCHANGED outcome
    /\ UNCHANGED <<retry, tries_left, attempts, results, telegram_id, updates,
                   signalVars, connections_closed, authorize_calls, url, noop,
                   limit_notices, config_check, event>>

\* faulty variant: the loop ends at the first failure
GroupChannelNotify_shortCircuit ==
    /\ pc = "group"
    /\ \E error \in ChannelErrors :
         LET channel == channels[Len(calls) + 1]
             count == IF CountsAsError(error) THEN error_count + 1 ELSE error_count
         IN  /\ calls' = Append(calls, [channel |-> channel, is_test |-> is_test,
                                        error |-> error])
             /\ error_count' = count
             /\ IF Len(calls) + 1 = Len(channels) \/ CountsAsError(error)
                THEN pc' = "done" /\ outcome' = GroupOutcome(count, channels)
                ELSE UNCHANGED <<pc, outcome>>
    /\ UNCHANGED <<called, cls, retry, tries_left, attempts, results, telegram_id,
                   updates, channels, is_test, signalVars, callVars>>

\* one pass of the loop over channels: channel.notify(flip, is_test=is_test)
\* returns error; after the last channel Group.notify returns or raises
GroupChannelNotify ==
    /\ pc = "group"
    /\ \E error \in ChannelErrors :
         LET channel == channels[Len(calls) + 1]
             count == IF CountsAsError(error) THEN error_count + 1 ELSE error_count
         IN  /\ calls' = Append(calls, [channel |-> channel, is_test |-> is_test,
                                        error |-> error])
             /\ error_count' = count
             /\ IF Len(calls) + 1 = Len(channels)
                THEN pc' = "done" /\ outcome' = GroupOutcome(count, channels)
                ELSE UNCHANGED <<pc, outcome>>
    /\ UNCHANGED <<called, cls, retry, tries_left, attempts, results, telegram_id,
                   updates, channels, is_test, signalVars, callVars>>

NextGroup ==
    \/ GroupNotify
    \/ GroupChannelNotify
    \/ Return

SpecGroup == Init /\ [][NextGroup]_vars

-----------------------------------------------------------------------------
(* Properties of HttpTransport.request, checked under Spec *)

Permanent(r) == IsError(r) /\ r.permanent

Transient(r) == IsError(r) /\ ~r.permanent

\* the running request() call has returned or raised
RequestEnded == pc \in {"done", "except"} /\ attempts # <<>>

\* C1: as soon as an attempt of request() fails with a permanent error, no
\* further _request call is made and that error is what request() raises,
\* with retry and without; a permanent failure of the first attempt leaves
\* exactly one attempt.
C1_PermanentEndsRequest ==
    \A i \in 1..Len(attempts) :
        Permanent(attempts[i].result) =>
            /\ i = Len(attempts)
            /\ RequestEnded
            /\ results # <<>>
            /\ Last(results) = attempts[i].result
            /\ pc = "done" => outcome = attempts[i].result

\* C1, its case: with retry, a transient failure and then a permanent one
C1_Witness ==
    /\ retry
    /\ Len(attempts) = 2
    /\ Transient(attempts[1].result)
    /\ Permanent(attempts[2].result)
    /\ pc = "done"

\* C2: with retry=True and every attempt failing non-permanently, _request is
\* called exactly 3 times, never a 4th, and then the error is raised.
C2_ThreeTransientAttempts ==
    (retry /\ \A i \in 1..Len(attempts) : Transient(attempts[i].result)) =>
        /\ Len(attempts) <= 3
        /\ pc = "request" => Len(attempts) < 3
        /\ RequestEnded =>
              /\ Len(attempts) = 3
              /\ Last(results) = attempts[3].result
              /\ outcome = attempts[3].result

\* C2, its case: three transient failures, raised
C2_Witness ==
    /\ retry
    /\ pc = "done"
    /\ Len(attempts) = 3
    /\ \A i \in 1..3 : Transient(attempts[i].result)
    /\ Transient(outcome)

\* C3: with retry=False exactly one _request call is made, whatever its
\* outcome; its failure, transient or permanent, is raised at once.
C3_NoRetryOneAttempt ==
    (~retry /\ pc \in {"request", "done", "except"}) =>
        /\ Len(attempts) <= 1
        /\ attempts # <<>> =>
              /\ RequestEnded
              /\ Last(results) = attempts[1].result
              /\ pc = "done" => outcome = attempts[1].result

\* C3, its case: retry=False and the single attempt failed non-permanently
C3_Witness ==
    /\ ~retry
    /\ pc = "done"
    /\ Len(attempts) = 1
    /\ Transient(attempts[1].result)
    /\ outcome = attempts[1].result

\* a notify call has ended after at least one attempt, and the provider
\* answered 404 to every attempt
Always404 ==
    /\ called = "notify"
    /\ pc = "done"
    /\ attempts # <<>>
    /\ \A i \in 1..Len(attempts) : attempts[i].status_code = 404

\* C4 as stated: on 404 to every attempt Slack, Mattermost and Discord each make
\* exactly 1 attempt and raise a permanent error, a Webhook with retry makes
\* exactly 3 attempts and raises a non-permanent error.
C4_ChatFamily404_AsStated ==
    Always404 =>
        /\ cls \in {"Slack", "Mattermost", "Discord"} =>
              Len(attempts) = 1 /\ Permanent(outcome)
        /\ (cls = "Webhook" /\ retry) =>
              Len(attempts) = 3 /\ Transient(outcome)

\* C4, amended: on 404 to every attempt Slack and Discord each make exactly 1
\* attempt and raise a permanent error; Mattermost, which inherits the hook of
\* HttpTransport, and a Webhook with retry make exactly 3 attempts and raise a
\* non-permanent error.
C4_ChatFamily404 ==
    Always404 =>
        /\ cls \in {"Slack", "Discord"} =>
              Len(attempts) = 1 /\ Permanent(outcome)
        /\ (cls = "Mattermost" \/ (cls = "Webhook" /\ retry)) =>
              Len(attempts) = 3 /\ Transient(outcome)

\* C4, its case: Discord answered by one 404
C4_Witness ==
    /\ Always404
    /\ cls = "Discord"
    /\ Len(attempts) = 1
    /\ Permanent(outcome)

-----------------------------------------------------------------------------
(* Properties of Telegram.notify, checked under Spec *)

InTelegramNotify == called = "notify" /\ cls = "Telegram"

\* C9: a MigrationRequiredError from the first send causes exactly one
\* update_telegram_id call, with the new chat id, and then a re-send addressed
\* to the new id; a failure of the re-send, another MigrationRequiredError
\* included, is raised unchanged, with no second update and no third send.
C9_MigrationOnce ==
    InTelegramNotify =>
        /\ Len(updates) <= 1
        /\ Len(results) <= 2
        /\ updates # <<>> =>
              /\ results[1].type = "MigrationRequiredError"
              /\ updates = <<results[1].new_chat_id>>
              /\ telegram_id = results[1].new_chat_id
              /\ \A i \in 1..Len(attempts) : attempts[i].chat_id = results[1].new_chat_id
        /\ (results # <<>> /\ results[1].type = "MigrationRequiredError") =>
              \/ pc = "except" /\ updates = <<>> /\ Len(results) = 1
              \/ pc = "request" /\ Len(updates) = 1 /\ Len(results) = 1
              \/ pc = "done" /\ Len(updates) = 1 /\ Len(results) = 2
                    /\ attempts # <<>>
                    /\ outcome = results[2]
        /\ (results # <<>> /\ results[1].type # "MigrationRequiredError") =>
              updates = <<>> /\ Len(results) = 1 /\ pc = "done"

\* C9, its case: the re-send failed with a second MigrationRequiredError, which
\* names another chat id than the one just stored
C9_Witness ==
    /\ InTelegramNotify
    /\ pc = "done"
    /\ Len(results) = 2
    /\ results[1].type = "MigrationRequiredError"
    /\ outcome.type = "MigrationRequiredError"
    /\ outcome.new_chat_id # telegram_id
    /\ Len(updates) = 1

\* Telegram.notify has ended after the update that follows a migration error
AfterMigration == InTelegramNotify /\ pc = "done" /\ updates # <<>>

\* C10 as stated: after the update, exactly one HTTP request with the new id
\* is made before giving up, also when it fails non-permanently.
C10_OneRequestAfterMigration_AsStated ==
    AfterMigration => Len(attempts) = 1

\* C10, amended: after the update Telegram.notify calls send exactly once more;
\* that send goes through post with retry enabled, so it makes one HTTP
\* request with the new id when that request succeeds or fails permanently,
\* and up to 3 (exactly 3 when all fail) when requests fail non-permanently.
C10_OneResendAfterMigration ==
    AfterMigration =>
        /\ Len(results) = 2
        /\ Len(attempts) \in 1..3
        /\ \A i \in 1..Len(attempts) : attempts[i].chat_id = updates[1]
        /\ \A i \in 1..(Len(attempts) - 1) : Transient(attempts[i].result)
        /\ Transient(Last(attempts).result) => Len(attempts) = 3
        /\ outcome = Last(attempts).result

\* C10, its case: the re-send made three requests, all failing non-permanently
C10_Witness ==
    /\ AfterMigration
    /\ Len(attempts) = 3
    /\ Transient(outcome)

-----------------------------------------------------------------------------
(* Properties of Signal.send and Signal.notify, checked under SpecSignal *)

InSignalNotify == called = "notify" /\ cls = "Signal"

\* the reply about to be handed to Signal.send
YieldedReply == Reply_model_validate_json(Join(buffer))

\* a well-formed reply whose id is not the id of the outstanding request
Mismatched(reply) == reply.valid /\ reply.id # RequestId

\* this step ends the running Signal.send call
SendEnding == Len(results') = Len(results) + 1

\* this step changes nothing but the generator's own buffer, frame count and
\* position
NoEffect ==
    UNCHANGED <<called, cls, tries_left, results, outcome, sock, clock, start,
                recvs, captcha_alerts, notices, telegram_id, updates, groupVars, callVars>>

\* a mismatched reply is dropped and the generator is resumed
Discards ==
    (pc = "yield" /\ Mismatched(YieldedReply)) =>
        (pc' = "check" /\ buffer' = <<>> /\ NoEffect)

C6_BudgetNeverExceeded ==
    (InSignalNotify /\ sock # "none") => clock - start <= TIMEOUT

RateLimited(r) == r.type = "SignalRateLimitFailure"

\* C7: once a send fails with SignalRateLimitFailure, Signal.notify makes no
\* further send, on the first attempt and on the second alike.
C7_RateLimitNotRetried ==
    InSignalNotify =>
        \A i \in 1..Len(results) :
            RateLimited(results[i]) =>
                /\ i = Len(results)
                /\ pc = "done"
                /\ outcome = results[i]

\* C7, its case: the second attempt was rate-limited
C7_Witness ==
    /\ InSignalNotify
    /\ Len(results) = 2
    /\ RateLimited(results[2])
    /\ pc = "done"

\* the token of the first result of an error reply with the matching id, ""
\* when that result is no RATE_LIMIT_FAILURE
FirstToken(reply_bytes) ==
    LET body == Stripped(reply_bytes) IN
    IF Len(body) >= 3 /\ body[1] = "i" /\ body[2] = "E"
    THEN (CASE body[3] = "Ra" -> "a" [] body[3] = "Rb" -> "b" [] OTHER -> "")
    ELSE ""

\* C8: a rate-limited reply causes exactly one send_signal_captcha_alert call
\* in a notify call, with the token and the raw bytes of that reply, and one
\* rate-limited notice; the same SignalRateLimitFailure is then raised.
C8_CaptchaAlertOnce ==
    InSignalNotify =>
        /\ Len(captcha_alerts) <= 1
        /\ notices = Len(captcha_alerts)
        /\ (\E i \in 1..Len(results) : RateLimited(results[i])) <=> captcha_alerts # <<>>
        /\ captcha_alerts # <<>> =>
              /\ pc = "done"
              /\ RateLimited(outcome)
              /\ outcome = Last(results)
              /\ outcome.reply = Join(buffer)
              /\ outcome.token # ""
              /\ outcome.token = FirstToken(outcome.reply)
              /\ captcha_alerts[1] = [token |-> outcome.token, reply |-> outcome.reply]

\* C8, its case: a reply with a RATE_LIMIT_FAILURE result and the token "b"
C8_Witness ==
    /\ InSignalNotify
    /\ pc = "done"
    /\ RateLimited(outcome)
    /\ outcome.token = "b"
    /\ Len(captcha_alerts) = 1
    /\ notices = 1

-----------------------------------------------------------------------------
(* Pushover.notify and Sms.notify *)

\* flip.new_status
Statuses == {"up", "down"}

\* the priorities a Pushover channel can be configured with
Priorities == {"-3", "0", "2"}

\* Pushover.notify: a cancel call goes first
CancelFirst(new_status, down_prio) == new_status = "up" /\ down_prio = "2"

\* Pushover.notify up to its first post.  has_token is
\* bool(settings.PUSHOVER_API_TOKEN), authorized the result of
\* TokenBucket.authorize_pushover
PushoverNotify ==
    /\ pc = "idle"
    /\ called' = "notify"
    /\ \E has_token \in BOOLEAN, authorized \in BOOLEAN,
          new_status \in Statuses, down_prio \in Priorities :
         /\ event' = [new_status |-> new_status, down_prio |-> down_prio]
         /\ config_check' = IF has_token THEN "ok" ELSE "no-credentials"
         /\ authorize_calls' =
               IF has_token THEN Append(authorize_calls, authorized) ELSE authorize_calls
         /\ IF ~has_token
            THEN /\ RaiseEarly("Pushover",
                        TransportError(Msg("Pushover notifications are not enabled.", 0, ""),
                                       FALSE))
                 /\ UNCHANGED <<url, connections_closed>>
            ELSE IF ~authorized
                 THEN /\ RaiseEarly("Pushover",
                             TransportError(Msg("Rate limit exceeded", 0, ""), FALSE))
                      /\ UNCHANGED <<url, connections_closed>>
                 ELSE /\ StartRequest("Pushover", PostRetry)
                      /\ IF CancelFirst(new_status, down_prio)
                         THEN url' = "cancel" /\ UNCHANGED connections_closed
                         ELSE url' = "messages" /\ connections_closed' = TRUE
    /\ UNCHANGED <<results, telegram_id, updates, signalVars, groupVars, owner, noop,
                   limit_notices>>

\* Pushover.notify after the cancel call: close_old_connections() and the
\* message call
PushoverMessage ==
    /\ pc = "cancelled"
    /\ url' = "messages"
    /\ connections_closed' = TRUE
    /\ StartRequest("Pushover", PostRetry)
    /\ UNCHANGED <<called, results, telegram_id, updates, signalVars, groupVars, owner,
                   authorize_calls, noop, limit_notices, config_check, event>>

\* faulty variant: the configuration errors of Sms.notify are permanent
SmsNotify_permanent ==
    /\ pc = "idle"
    /\ called' = "notify"
    /\ \E configured \in BOOLEAN, authorized \in BOOLEAN :
         /\ config_check' = IF ~configured THEN "no-credentials"
                            ELSE IF ~authorized THEN "quota" ELSE "ok"
         /\ limit_notices' =
               IF configured /\ ~authorized THEN limit_notices + 1 ELSE limit_notices
         /\ IF ~configured
            THEN RaiseEarly("Sms",
                     TransportError(Msg("SMS notifications are not enabled", 0, ""), TRUE))
            ELSE IF ~authorized
                 THEN RaiseEarly("Sms",
                          TransportError(Msg("Monthly SMS limit exceeded", 0, ""), TRUE))
                 ELSE StartRequest("Sms", PostRetry)
    /\ UNCHANGED <<results, telegram_id, updates, signalVars, groupVars, owner,
                   connections_closed, authorize_calls, url, noop, event>>

\* Sms.notify up to self.post.  configured is settings.TWILIO_ACCOUNT and
\* settings.TWILIO_AUTH, authorized the result of profile.authorize_sms()
SmsNotify ==
    /\ pc = "idle"
    /\ called' = "notify"
    /\ \E configured \in BOOLEAN, authorized \in BOOLEAN :
         /\ config_check' = IF ~configured THEN "no-credentials"
                            ELSE IF ~authorized THEN "quota" ELSE "ok"
         /\ limit_notices' =
               IF configured /\ ~authorized THEN limit_notices + 1 ELSE limit_notices
         /\ IF ~configured
            THEN RaiseEarly("Sms",
                     TransportError(Msg("SMS notifications are not enabled", 0, ""), FALSE))
            ELSE IF ~authorized
                 THEN RaiseEarly("Sms",
                          TransportError(Msg("Monthly SMS limit exceeded", 0, ""), FALSE))
                 ELSE StartRequest("Sms", PostRetry)
    /\ UNCHANGED <<results, telegram_id, updates, signalVars, groupVars, owner,
                   connections_closed, authorize_calls, url, noop, event>>

\* Call.notify up to self.post.  configured is settings.TWILIO_ACCOUNT,
\* settings.TWILIO_AUTH and settings.TWILIO_FROM, authorized the result of
\* profile.authorize_call()
CallNotify ==
    /\ pc = "idle"
    /\ called' = "notify"
    /\ \E configured \in BOOLEAN, authorized \in BOOLEAN :
         /\ config_check' = IF ~configured THEN "no-credentials"
                            ELSE IF ~authorized THEN "quota" ELSE "ok"
         /\ limit_notices' =
               IF configured /\ ~authorized THEN limit_notices + 1 ELSE limit_notices
         /\ IF ~configured
            THEN RaiseEarly("Call",
                     TransportError(Msg("Call notifications are not enabled", 0, ""), FALSE))
            ELSE IF ~authorized
                 THEN RaiseEarly("Call",
                          TransportError(Msg("Monthly phone call limit exceeded", 0, ""),
                                         FALSE))
                 ELSE StartRequest("Call", PostRetry)
    /\ UNCHANGED <<results, telegram_id, updates, signalVars, groupVars, owner,
                   connections_closed, authorize_calls, url, noop, event>>

\* WhatsApp.notify up to self.post.  configured is the truth of all seven
\* settings of the loop, authorized the result of profile.authorize_sms()
WhatsAppNotify ==
    /\ pc = "idle"
    /\ called' = "notify"
    /\ \E configured \in BOOLEAN, authorized \in BOOLEAN :
         /\ config_check' = IF ~configured THEN "no-credentials"
                            ELSE IF ~authorized THEN "quota" ELSE "ok"
         /\ limit_notices' =
               IF configured /\ ~authorized THEN limit_notices + 1 ELSE limit_notices
         /\ IF ~configured
            THEN RaiseEarly("WhatsApp",
                     TransportError(Msg("WhatsApp notifications are not enabled", 0, ""),
                                    FALSE))
            ELSE IF ~authorized
                 THEN RaiseEarly("WhatsApp",
                          TransportError(Msg("Monthly message limit exceeded", 0, ""), FALSE))
                 ELSE StartRequest("WhatsApp", PostRetry)
    /\ UNCHANGED <<results, telegram_id, updates, signalVars, groupVars, owner,
                   connections_closed, authorize_calls, url, noop, event>>

NextTwilio ==
    \/ SmsNotify
    \/ CallNotify
    \/ WhatsAppNotify
    \/ HttpAttempt
    \/ Return

SpecTwilio == Init /\ [][NextTwilio]_vars

NextPushover ==
    \/ PushoverNotify
    \/ PushoverMessage
    \/ HttpAttempt
    \/ Return

SpecPushover == Init /\ [][NextPushover]_vars

-----------------------------------------------------------------------------
(* The is_noop methods *)

\* int(prio) of a Pushover priority
PriorityValue(prio) ==
    CASE prio = "-3" -> 0 - 3
      [] prio = "0" -> 0
      [] prio = "2" -> 2

\* channel configurations, as far as is_noop reads them: up and down are
\* notify_up and notify_down of channel.email or channel.phone, the truth of
\* cmd_up and cmd_down of channel.shell, or of the url of
\* channel.webhook_spec(status); pieces are the pieces of a Pushover
\* channel.value after the user key; priority and priority_up are those of
\* channel.ntfy
Channels ==
    [up : BOOLEAN, down : BOOLEAN,
     pieces : {<<d>> : d \in Priorities} \cup {<<d, u>> : d \in Priorities, u \in Priorities},
     priority : {0, 3}, priority_up : {0, 3}]

\* the classes whose is_noop is modelled; "Slack" stands for every class that
\* inherits Transport.is_noop
NoopClasses ==
    {"Slack", "RemovedTransport", "Email", "Shell", "Webhook", "Pushover", "Sms",
     "Call", "WhatsApp", "Trello", "Signal", "Ntfy", "GitHub"}

\* self.is_noop(status) of a transport of class c
is_noop(c, status, channel) ==
    CASE c = "RemovedTransport" -> TRUE
      [] c \in {"Email", "Sms", "WhatsApp", "Signal"} ->
            IF status = "down" THEN ~channel.down ELSE ~channel.up
      [] c = "Shell" ->
            \/ status = "down" /\ ~channel.down
            \/ status = "up" /\ ~channel.up
      [] c = "Webhook" -> IF status = "down" THEN ~channel.down ELSE ~channel.up
      [] c = "Pushover" ->
            LET prio == IF status = "up" /\ Len(channel.pieces) = 2
                        THEN channel.pieces[2] ELSE channel.pieces[1]
            IN  PriorityValue(prio) = 0 - 3
      [] c \in {"Call", "Trello", "GitHub"} -> status # "down"
      [] c = "Ntfy" ->
            (IF status = "up" THEN channel.priority_up ELSE channel.priority) = 0
      [] OTHER -> FALSE

\* faulty variant: is_noop asks the rate limiter
IsNoopCall_authorizes ==
    /\ pc = "idle"
    /\ pc' = "done"
    /\ called' = "is_noop"
    /\ \E c \in NoopClasses, status \in Statuses, channel \in Channels :
         /\ cls' = c
         /\ noop' = IF is_noop(c, status, channel) THEN "True" ELSE "False"
    /\ authorize_calls' = Append(authorize_calls, TRUE)
    /\ UNCHANGED <<retry, tries_left, attempts, results, outcome, telegram_id, updates,
                   signalVars, groupVars, owner, connections_closed, url,
                   limit_notices, config_check, event>>

\* a call of is_noop(status) on a transport of class c: it returns a boolean
IsNoopCall ==
    /\ pc = "idle"
    /\ pc' = "done"
    /\ called' = "is_noop"
    /\ \E c \in NoopClasses, status \in Statuses, channel \in Channels :
         /\ cls' = c
         /\ noop' = IF is_noop(c, status, channel) THEN "True" ELSE "False"
    /\ UNCHANGED <<retry, tries_left, attempts, results, outcome, telegram_id, updates,
                   signalVars, groupVars, owner, connections_closed, authorize_calls,
                   url, limit_notices, config_check, event>>

-----------------------------------------------------------------------------
(* All transports together *)

NextAll ==
    \/ Next
    \/ NextSignal
    \/ NextGroup
    \/ NextPushover
    \/ SmsNotify
    \/ IsNoopCall

SpecAll == Init /\ [][NextAll]_vars

-----------------------------------------------------------------------------
(* Group.notify: claims *)

InGroupNotify == cls = "Group"

\* the sub-channels notified so far whose channel.notify reported a delivery
Delivered == {i \in 1..Len(calls) : calls[i].error = ""}

\* the sub-channels notified so far that had nothing to send
NoOps == {i \in 1..Len(calls) : calls[i].error = "no-op"}

\* the sub-channels notified so far that failed
Failed == (1..Len(calls)) \ (Delivered \cup NoOps)

\* C11: Group.notify over N sub-channels raises iff the number k of failed
\* sub-channels (neither delivered nor no-op) is greater than 0, and then it
\* raises one error, after the last sub-channel, whose message is
\* "k out of N notifications failed", for every 1 <= k <= N.
C11_GroupRaisesIffFailed ==
    InGroupNotify =>
        LET k == Cardinality(Failed)
            N == Len(channels)
        IN  /\ pc # "done" => outcome = Pending
            /\ pc = "done" =>
                  /\ Len(calls) = N
                  /\ IsError(outcome) <=> k > 0
                  /\ k = 0 => outcome = Ok
                  /\ k > 0 =>
                        /\ k <= N
                        /\ outcome.type = "TransportError"
                        /\ outcome.message.text =
                              ToString(k) \o " out of " \o ToString(N)
                                  \o " notifications failed"

\* C11, its case: every sub-channel of a group of two failed (k = N)
C11_Witness ==
    /\ InGroupNotify
    /\ pc = "done"
    /\ Len(channels) = 2
    /\ Cardinality(Failed) = 2
    /\ outcome.message.text = "2 out of 2 notifications failed"

\* C12: a no-op sub-channel is never counted as a failure, but it is counted
\* in the denominator of the aggregate message, which is the number of
\* configured sub-channels; a group whose sub-channels all delivered or were
\* no-ops raises nothing.
C12_NoOpInDenominatorOnly ==
    InGroupNotify =>
        /\ error_count = Len(calls) - Cardinality(Delivered) - Cardinality(NoOps)
        /\ (pc = "done" /\ Failed = {}) => outcome = Ok
        /\ (pc = "done" /\ Failed # {}) =>
              outcome.message.text =
                  ToString(error_count) \o " out of "
                      \o ToString(Cardinality(Failed) + Cardinality(Delivered)
                                      + Cardinality(NoOps))
                      \o " notifications failed"

\* C12, its case: one of three sub-channels failed, the other two were no-ops
C12_Witness ==
    /\ InGroupNotify
    /\ pc = "done"
    /\ Cardinality(NoOps) = 2
    /\ Cardinality(Failed) = 1
    /\ outcome.message.text = "1 out of 3 notifications failed"

-----------------------------------------------------------------------------
(* Signal: claims on the end of a send call *)

\* the result of the Signal.send call this step ends
EndedWith == Last(results')

\* an error that reports a timeout: the elapsed-time check of _read_replies,
\* or socket.timeout caught as OSError
TimeoutError(r) ==
    /\ r.type = "TransportError"
    /\ ~r.permanent
    /\ \/ r.message.text = "signal-cli call timed out"
       \/ r.message.text = "signal-cli call failed" /\ r.message.detail = "timed out"

\* this step ends a Signal.send call whose connection was accepted, without a
\* frame being handed to send in this step (no reply, no end of stream) and
\* without the connection breaking
EndsUnanswered ==
    /\ InSignalNotify
    /\ SendEnding
    /\ pc \in {"sendall", "shutdown", "recv", "check"}
    /\ EndedWith.message.detail \notin (OSErrors \ {"timed out"})

\* this step enters a Signal.send call
SendEntered ==
    \/ pc = "idle" /\ pc' = "connect"
    \/ SendEnding /\ pc' = "connect"

C14_AtMostTwoSends ==
    InSignalNotify =>
        /\ Len(results) <= 2
        /\ \A i \in 1..Len(results) :
              (~IsError(results[i]) \/ results[i].permanent) =>
                  /\ i = Len(results)
                  /\ pc = "done"
                  /\ outcome = results[i]
        /\ (/\ Len(results) >= 1
            /\ IsError(results[1])
            /\ ~results[1].permanent
            /\ ~RateLimited(results[1])) =>
                  \/ Len(results) = 1 /\ pc \notin {"idle", "done"} /\ tries_left = 1
                  \/ Len(results) = 2
        /\ Len(results) = 2 =>
              /\ pc = "done"
              /\ outcome = results[2]

\* C14, its case: the first attempt failed with a transient error and the
\* second with another one, which is the outcome
C14_Witness ==
    /\ InSignalNotify
    /\ pc = "done"
    /\ Len(results) = 2
    /\ results[1].message.text = "signal-cli call failed (unexpected response)"
    /\ results[2].message.text = "signal-cli call timed out"
    /\ outcome = results[2]

-----------------------------------------------------------------------------
(* Signal.send on one reply line: claims *)

\* the results of the error reply in buffer, as sent
SentResults ==
    LET body == Stripped(Join(buffer)) IN SubSeq(body, 3, Len(body))

\* the positions of the results that decide the error: UNREGISTERED_FAILURE,
\* or RATE_LIMIT_FAILURE with a token
Deciding == {k \in 1..Len(SentResults) : SentResults[k] \in {"U", "Ra", "Rb"}}

FirstDeciding == CHOOSE k \in Deciding : \A j \in Deciding : k <= j

\* the running send call got an error reply with the id of its request
ScannedMatchingError ==
    /\ called = "send"
    /\ pc = "done"
    /\ buffer[1] = "i"

\* C15: for a reply with the matching id and an error, the first result that
\* is an UNREGISTERED_FAILURE or a RATE_LIMIT_FAILURE with a token decides:
\* permanent "Recipient not found" for the former, SignalRateLimitFailure
\* with that token and the raw reply bytes for the latter; when there is no
\* such result, a non-permanent error with the numeric error code is raised.
C15_FirstDecidingResultWins ==
    ScannedMatchingError =>
        IF Deciding = {}
        THEN outcome = TransportError(Msg("signal-cli call failed", 5, ""), FALSE)
        ELSE LET first == SentResults[FirstDeciding] IN
             /\ first = "U" =>
                   outcome = TransportError(Msg("Recipient not found", 0, ""), TRUE)
             /\ first = "Ra" => outcome = SignalRateLimitFailure("a", Join(buffer))
             /\ first = "Rb" => outcome = SignalRateLimitFailure("b", Join(buffer))

\* C15, its case: a rate limit without a token, then one with the token "b",
\* then an UNREGISTERED_FAILURE
C15_Witness ==
    /\ ScannedMatchingError
    /\ SentResults = <<"R", "Rb", "U">>
    /\ outcome.type = "SignalRateLimitFailure"
    /\ outcome.token = "b"

-----------------------------------------------------------------------------
(* Signal.send in Signal.notify: claims on the reply that ends the call *)

UnexpectedResponse ==
    TransportError(Msg("signal-cli call failed (unexpected response)", 0, ""), FALSE)

\* a frame with the id of the request and no error member is handed to send
SuccessYielded ==
    /\ InSignalNotify
    /\ pc = "yield"
    /\ YieldedReply.valid
    /\ YieldedReply.id = RequestId
    /\ ~YieldedReply.has_error

\* C16: on a reply with the matching id and no error member, Signal.send
\* returns success at once: nothing more is received from the socket, also
\* when the daemon could send more.
C16_SuccessStopsReading ==
    [][ SuccessYielded =>
            /\ SendEnding
            /\ EndedWith = Ok
            /\ pc' = "done"
            /\ outcome' = Ok
            /\ recvs' = recvs
            /\ UNCHANGED <<tries_left, captcha_alerts, notices>>
      ]_vars

\* C16, its case: success on the first frame while the daemon had not closed
\* the stream and could have sent more
C16_Witness ==
    /\ InSignalNotify
    /\ pc = "done"
    /\ outcome = Ok
    /\ buffer = <<"i", Newline>>
    /\ frames = 1
    /\ recvs < MaxRecv

\* a frame that fails to decode is handed to send
UndecodableYielded ==
    /\ InSignalNotify
    /\ pc = "yield"
    /\ ~YieldedReply.valid

\* C17: a frame that fails to decode makes Signal.send raise the non-permanent
\* "unexpected response" error at once, whatever came before it; nothing more
\* is read on that socket, and only the retry loop of Signal.notify sends the
\* request again, once, when this was the first attempt.
C17_UndecodableEndsSend ==
    [][ UndecodableYielded =>
            /\ SendEnding
            /\ EndedWith = UnexpectedResponse
            /\ tries_left' = tries_left - 1
            /\ UNCHANGED <<captcha_alerts, notices>>
            /\ IF tries_left = SignalTries
               THEN /\ pc' = "connect"
                    /\ sock' = "open"
                    /\ recvs' = 0
                    /\ outcome' = Pending
               ELSE /\ pc' = "done"
                    /\ sock' = "closed"
                    /\ recvs' = recvs
                    /\ outcome' = UnexpectedResponse
      ]_vars

\* C17, its case: on the second attempt, an undecodable frame after a reply
\* to another request
C17_Witness ==
    /\ InSignalNotify
    /\ pc = "done"
    /\ Len(results) = 2
    /\ outcome = UnexpectedResponse
    /\ frames = 2
    /\ buffer = <<Newline>>

-----------------------------------------------------------------------------
(* HttpTransport._request: claims *)

\* the attempt got no response: curl.request raised CurlError
CurlFailed(a) == a.status_code = 0

\* C18: _request succeeds exactly when curl.request returns a response with
\* status 200, 201, 202 or 204; every other status, 203 included, goes to the
\* raise_for_response hook of the class and ends in a TransportError.
C18_SuccessStatusCodes ==
    \A i \in 1..Len(attempts) :
        LET a == attempts[i] IN
        /\ a.result = Ok <=> a.status_code \in {200, 201, 202, 204}
        /\ (~CurlFailed(a) /\ a.status_code \notin {200, 201, 202, 204}) =>
              /\ a.result.type \in {"TransportError", "MigrationRequiredError"}
              /\ a.result.type = "MigrationRequiredError" => cls = "Telegram"
              /\ a.result.type = "TransportError" =>
                    a.result.message.code = a.status_code

\* C18, its case: a 203 response failed the request, the next one was a 204
C18_Witness ==
    /\ pc = "done"
    /\ Len(attempts) = 2
    /\ attempts[1].status_code = 203
    /\ Transient(attempts[1].result)
    /\ attempts[2].status_code = 204
    /\ outcome = Ok

\* C19: a CurlError becomes a non-permanent TransportError with its message,
\* so with retry a request that only meets CurlErrors makes 3 attempts; a
\* permanent error of a raise_for_response hook stays permanent.
C19_CurlErrorTransient ==
    /\ \A i \in 1..Len(attempts) :
          LET a == attempts[i] IN
          /\ CurlFailed(a) =>
                a.result = TransportError(Msg("Connection failed", 0, ""), FALSE)
          /\ (cls \in {"Slack", "Discord"} /\ a.status_code = 404) =>
                Permanent(a.result)
    /\ (retry /\ RequestEnded /\ \A i \in 1..Len(attempts) : CurlFailed(attempts[i])) =>
          /\ Len(attempts) = 3
          /\ Transient(outcome)

\* C19, its case: with retry, two CurlErrors and then a 404 from Discord
C19_Witness ==
    /\ retry
    /\ cls = "Discord"
    /\ pc = "done"
    /\ Len(attempts) = 3
    /\ CurlFailed(attempts[1])
    /\ CurlFailed(attempts[2])
    /\ attempts[3].status_code = 404
    /\ Permanent(outcome)

-----------------------------------------------------------------------------
(* Signal._read_replies: claims on OS errors *)

\* this step ends a Signal.send call in the except OSError clause: connect,
\* sendall, shutdown or recv raised
OSErrorRaised ==
    /\ InSignalNotify
    /\ SendEnding
    /\ pc \in {"connect", "sendall", "shutdown", "recv"}

\* C20 as stated: an OS error of connect, sendall, shutdown or recv is raised
\* again as a non-permanent TransportError whose message does not contain the
\* text of the OS error.
C20_OSErrorSanitized_AsStated ==
    [][ OSErrorRaised =>
            /\ EndedWith.type = "TransportError"
            /\ ~EndedWith.permanent
            /\ EndedWith.message.detail = ""
      ]_vars

\* C20: an OS error of connect, sendall, shutdown or recv is raised again as a
\* non-permanent TransportError whose message is "signal-cli call failed"
\* followed by the text of the OS error in parentheses.
C20_OSErrorInMessage ==
    [][ OSErrorRaised =>
            /\ EndedWith.type = "TransportError"
            /\ ~EndedWith.permanent
            /\ EndedWith.message.text = "signal-cli call failed"
            /\ EndedWith.message.code = 0
            /\ EndedWith.message.detail \in OSErrors
            /\ pc' = "done" => outcome' = EndedWith
      ]_vars

\* C20, its case: both attempts ended in an OS error, the second one in
\* "Connection refused", which the caller gets
C20_Witness ==
    /\ InSignalNotify
    /\ pc = "done"
    /\ Len(results) = 2
    /\ results[1].message.detail = "timed out"
    /\ outcome = TransportError(Msg("signal-cli call failed", 0, "Connection refused"), FALSE)

-----------------------------------------------------------------------------
(* Early failures, the database connection and configuration: claims *)

\* the error of a refused rate-limit token
RateLimitExceeded == TransportError(Msg("Rate limit exceeded", 0, ""), FALSE)

\* the rate limiter has refused the running notify call its token
RateLimitRefused ==
    /\ called = "notify"
    /\ cls \in {"Pushover", "Telegram", "Signal"}
    /\ authorize_calls # <<>>
    /\ ~Last(authorize_calls)

\* no HTTP request was made, no socket was opened and no time has passed in
\* the running call
NoNetworkCall ==
    /\ attempts = <<>>
    /\ results = <<>>
    /\ sock = "none"
    /\ recvs = 0
    /\ clock = 0

\* C21: when TokenBucket.authorize_* returns false in Pushover, Telegram or
\* Signal notify, the call has ended at once with the non-permanent error
\* "Rate limit exceeded": no time has passed, and no HTTP request and no
\* socket operation was made
C21_RateLimitRefusalFailsAtOnce ==
    RateLimitRefused =>
        /\ pc = "done"
        /\ outcome = RateLimitExceeded
        /\ ~outcome.permanent
        /\ NoNetworkCall

\* Telegram.notify has been refused its token
C21_Witness ==
    /\ RateLimitRefused
    /\ cls = "Telegram"
    /\ pc = "done"
    /\ outcome = RateLimitExceeded

\* the running notify call found the provider disabled, its credentials
\* missing or the monthly quota used up
ConfigError ==
    /\ called = "notify"
    /\ config_check \in {"disabled", "no-credentials", "quota"}

\* C22 as stated: a configuration error ends notify at once, without a network
\* attempt, with an error whose permanent flag is true
C22_ConfigErrorPermanent_AsStated ==
    ConfigError =>
        /\ pc = "done"
        /\ IsError(outcome)
        /\ outcome.permanent
        /\ NoNetworkCall

\* C22 (amended): a configuration error ends notify at once, without a network
\* attempt, with a TransportError whose permanent flag is false; when the
\* monthly quota is used up, the limit notice has been sent once
C22_ConfigErrorFailsAtOnce ==
    ConfigError =>
        /\ pc = "done"
        /\ outcome.type = "TransportError"
        /\ ~outcome.permanent
        /\ NoNetworkCall
        /\ limit_notices = (IF config_check = "quota" THEN 1 ELSE 0)

\* Sms.notify found the monthly quota used up
C22_Witness ==
    /\ ConfigError
    /\ cls = "Sms"
    /\ config_check = "quota"
    /\ pc = "done"
    /\ ~outcome.permanent
    /\ limit_notices = 1

\* a send of the running notify call has failed with a permanent error
PermanentSendFailure ==
    /\ called = "notify"
    /\ results # <<>>
    /\ IsError(Last(results))
    /\ Last(results).permanent

\* the step is the return of notify to its caller with the error of its last
\* send: no send follows that error, and the configuration stays as it is
RaisesLastError ==
    /\ pc = "done"
    /\ outcome = Last(results)
    /\ pc' = "idle"
    /\ telegram_id' = telegram_id

\* C23 as stated: after a send has failed with a permanent error, notify makes
\* no further send and does not change the channel configuration
C23_PermanentEndsNotify_AsStated ==
    [][PermanentSendFailure => RaisesLastError]_vars

\* C23 (amended): after a send has failed with a permanent error other than
\* the MigrationRequiredError of the first send of Telegram.notify, notify
\* makes no further send and does not change the channel configuration; after
\* that MigrationRequiredError it stores the new chat id once and sends again
C23_PermanentEndsNotifyButMigration ==
    [][PermanentSendFailure =>
          IF cls = "Telegram" /\ Len(results) = 1
               /\ Last(results).type = "MigrationRequiredError"
          THEN IF pc = "except"
               THEN /\ telegram_id' = Last(results).new_chat_id
                    /\ updates' = <<telegram_id'>>
                    /\ pc' = "request"
                    /\ attempts' = <<>>
               ELSE /\ pc = "request"
                    /\ updates = <<telegram_id>>
                    /\ telegram_id' = telegram_id
          ELSE RaisesLastError]_vars

\* Telegram.notify has failed with a permanent error of the first send, the
\* chat id is as it was
C23_Witness ==
    /\ PermanentSendFailure
    /\ cls = "Telegram"
    /\ Last(results).type = "TransportError"
    /\ Len(results) = 1
    /\ pc = "done"
    /\ updates = <<>>

\* the running notify call has reached a network call: an HTTP request or a
\* socket operation
ReachedNetworkCall ==
    /\ called = "notify"
    /\ \/ pc \in {"request", "connect"}
       \/ attempts # <<>>
       \/ results # <<>>
       \/ sock # "none"

\* C24: in every transport's notify, close_old_connections() has been called
\* by the time the first network call of that notify is made
C24_ConnectionsClosedBeforeNetworkCall ==
    ReachedNetworkCall => connections_closed

\* the step changes the channel configuration
ConfigurationChanges ==
    \/ telegram_id' # telegram_id
    \/ Len(updates') > Len(updates)

\* the step is update_telegram_id(e.new_chat_id) in the except clause of
\* Telegram.notify, e being the MigrationRequiredError of the send before
UpdatesAfterMigrationRequired ==
    /\ called = "notify"
    /\ cls = "Telegram"
    /\ pc = "except"
    /\ Last(results).type = "MigrationRequiredError"
    /\ telegram_id' = Last(results).new_chat_id
    /\ updates' = Append(updates, telegram_id')

\* C25: the channel configuration changes only by update_telegram_id after a
\* MigrationRequiredError; no other step of any transport, whatever its
\* outcome, changes it
C25_ConfigurationChangesOnlyByMigration ==
    [][ConfigurationChanges => UpdatesAfterMigrationRequired]_vars

\* Telegram.notify has stored the new chat id and sends again
C25_Witness ==
    /\ called = "notify"
    /\ cls = "Telegram"
    /\ pc = "request"
    /\ Len(results) = 1
    /\ results[1].type = "MigrationRequiredError"
    /\ updates = <<results[1].new_chat_id>>
    /\ telegram_id = results[1].new_chat_id

-----------------------------------------------------------------------------
(* Webhook.notify, is_noop, Group.notify order: claims *)

\* Webhook.notify has read notification.owner and called self.request
WebhookRequested ==
    /\ called = "notify"
    /\ cls = "Webhook"
    /\ owner # "unread"

\* C26: for a test notification (notification.owner is None) Webhook.notify
\* calls request with retry=False and exactly one HTTP attempt is made, even
\* when it fails transiently; for any other notification it calls request
\* with retry=True
C26_WebhookTestNotRetried ==
    WebhookRequested =>
        /\ retry = (owner # "None")
        /\ owner = "None" =>
              /\ Len(attempts) = (IF pc = "done" THEN 1 ELSE 0)
              /\ pc = "done" => outcome = attempts[1].result

\* a test notification has ended with the transient failure of its one attempt
C26_Witness ==
    /\ WebhookRequested
    /\ owner = "None"
    /\ pc = "done"
    /\ Len(attempts) = 1
    /\ IsError(outcome)
    /\ ~outcome.permanent

\* the step is a call of is_noop
IsNoopStep == called = "none" /\ called' = "is_noop"

\* C27: a call of is_noop, of any transport and for either status, returns a
\* boolean and has no effect: no HTTP attempt, no socket operation, no
\* rate limiter call, no change of the channel configuration or of any
\* other state
C27_IsNoopHasNoEffect ==
    [][IsNoopStep =>
          /\ noop' \in {"True", "False"}
          /\ UNCHANGED <<attempts, results, retry, tries_left, outcome>>
          /\ UNCHANGED signalVars
          /\ UNCHANGED <<authorize_calls, limit_notices, connections_closed, owner, url,
                         config_check, event>>
          /\ UNCHANGED <<telegram_id, updates>>
          /\ UNCHANGED groupVars]_vars

\* is_noop of a Pushover transport has returned True
C27_Witness ==
    /\ called = "is_noop"
    /\ cls = "Pushover"
    /\ noop = "True"
    /\ pc = "done"
    /\ authorize_calls = <<>>
    /\ attempts = <<>>
    /\ sock = "none"

\* C28: Group.notify calls notify of its sub-channels one after the other in
\* the configured order, each once; while sub-channels are left it has not
\* returned or raised, whatever the earlier sub-channels answered, and when it
\* has returned or raised every sub-channel has been notified
C28_GroupNotifiesAllInOrder ==
    InGroupNotify =>
        /\ Len(calls) <= Len(channels)
        /\ \A i \in 1..Len(calls) : calls[i].channel = channels[i]
        /\ Len(calls) < Len(channels) => pc = "group" /\ outcome = Pending
        /\ pc = "done" => Len(calls) = Len(channels)

\* the first of three sub-channels failed, the third was notified after it and
\* then the group raised
C28_Witness ==
    /\ InGroupNotify
    /\ pc = "done"
    /\ Len(channels) = 3
    /\ Len(calls) = 3
    /\ CountsAsError(calls[1].error)
    /\ calls[3].channel = channels[3]
    /\ IsError(outcome)

-----------------------------------------------------------------------------
(* End of stream, the attempts of request: claims *)

\* the daemon has closed the stream of the running send
AtEndOfStream == InSignalNotify /\ sock = "peer-closed"

\* the frame about to be handed to send carries the id of the request
MatchingYielded ==
    /\ pc = "yield"
    /\ YieldedReply.valid
    /\ YieldedReply.id = RequestId

\* the most steps the read loop can still take on this stream: a frame before
\* the end of the stream is handed over, then the elapsed time is checked,
\* recv returns b"" once more and the empty frame is handed over
StepsLeft ==
    CASE pc = "yield" /\ Len(buffer) > 1 -> 4
      [] pc = "check" -> 3
      [] pc = "recv" -> 2
      [] pc = "yield" /\ Len(buffer) <= 1 -> 1
      [] OTHER -> 0

\* C29: once the daemon has closed the stream and no frame with the matching
\* id is at hand, the read loop always has a step to take, and each step
\* either ends send with a non-permanent error or takes no time and brings
\* the loop nearer to its end (at most four steps): send terminates without
\* spinning on empty reads and without waiting for the time budget
C29_EndOfStreamEndsSend ==
    /\ [](AtEndOfStream => ENABLED <<NextSignal>>_vars)
    /\ [][(AtEndOfStream /\ ~MatchingYielded) =>
             IF SendEnding
             THEN /\ EndedWith.type = "TransportError"
                  /\ ~EndedWith.permanent
             ELSE /\ sock' = "peer-closed"
                  /\ clock' = clock
                  /\ StepsLeft' < StepsLeft]_vars

\* the stream has ended with nothing received, and the empty frame is about to
\* be handed to send
C29_Witness ==
    /\ AtEndOfStream
    /\ pc = "yield"
    /\ recvs = 0
    /\ frames = 0
    /\ buffer = <<EndOfStream>>

\* the attempt budget of the running request() call
Budget == IF retry THEN 3 ELSE 1

\* an attempt that succeeded or failed permanently
Decisive(a) == ~IsError(a.result) \/ Permanent(a.result)

\* C30: whatever the attempts' outcomes, request() makes no attempt after a
\* success or a permanent failure and none beyond its budget (3 with retry, 1
\* without); it goes on while the last attempt failed transiently and tries
\* are left, and ends at the first decisive attempt or with the budget,
\* returning or raising the result of that last attempt
C30_RequestEndsAtFirstDecisiveAttempt ==
    called \in {"notify", "request"} =>
        LET n == Len(attempts) IN
        /\ n <= Budget
        /\ \A i \in 1..(n - 1) : Transient(attempts[i].result)
        /\ (pc = "request" /\ n > 0) => (Transient(attempts[n].result) /\ n < Budget)
        /\ RequestEnded =>
              /\ Decisive(attempts[n]) \/ n = Budget
              /\ Last(results) = attempts[n].result
              /\ IsError(Last(results)) = IsError(attempts[n].result)

\* two transient failures and a success with retry: request() has returned
\* after the third attempt
C30_Witness ==
    /\ RequestEnded
    /\ retry
    /\ Len(attempts) = 3
    /\ Transient(attempts[1].result)
    /\ Transient(attempts[2].result)
    /\ ~IsError(attempts[3].result)
    /\ outcome = Ok

-----------------------------------------------------------------------------
(* Signal._read_replies: order of the elapsed-time check, of the socket
   operations and of the frames: claims *)

\* a matching reply without error is handed to send when the time budget of
\* the call has already run out
LateSuccess == SuccessYielded /\ TimedOut(clock, start)

\* this step raises the error of the elapsed-time check
RaisesTimedOut ==
    /\ InSignalNotify
    /\ SendEnding
    /\ EndedWith.message.text = "signal-cli call timed out"

-----------------------------------------------------------------------------
(* The rate limiter and test notifications: claims *)

\* a notify call of a transport that uses the rate limiter
InLimitedNotify ==
    /\ called = "notify"
    /\ cls \in {"Pushover", "Telegram", "Signal"}

TestNotify ==
    /\ called = "notify"
    /\ cls # "Group"
    /\ owner = "None"

\* C33: for a test notification (notification.owner is None) a transport's
\* notify makes at most one request attempt and at most one send
C33_TestNotRetried ==
    TestNotify =>
        /\ Len(attempts) <= 1
        /\ Len(results) <= 1

\* the running send call is in the read loop of _read_replies
Reading == pc \in {"recv", "yield", "check"}

\* C34: a Signal.send call uses one connection and goes from connect to
\* sendall to shutdown to reading: while it reads, the request has been
\* written and the write side is shut down; before that nothing has been
\* read; and after the half-close the only socket operation is recv
C34_ConnectWriteHalfCloseRead ==
    /\ [](InSignalNotify =>
            /\ Reading => sock \in {"half-closed", "peer-closed"}
            /\ pc \in {"connect", "sendall", "shutdown"} =>
                  /\ recvs = 0
                  /\ buffer = <<>>
                  /\ frames = 0
                  /\ sock = (IF pc = "connect" THEN "open" ELSE "connected"))
    /\ [][InSignalNotify =>
            /\ pc' = "connect" => (SendEntered /\ sock' = "open")
            /\ pc' = "sendall" => (pc = "connect" /\ sock = "open" /\ sock' = "connected")
            /\ pc' = "shutdown" => (pc = "sendall" /\ sock' = "connected")
            /\ (pc' = "recv" /\ pc # "recv") =>
                  \/ pc = "shutdown" /\ sock' = "half-closed"
                  \/ pc = "check" /\ sock' = sock
            /\ sock \in {"half-closed", "peer-closed"} =>
                  \/ Reading /\ pc' \in {"recv", "yield", "check"}
                  \/ SendEnding
      ]_vars

\* the request is written and the write side shut down, nothing is read yet
C34_Witness ==
    /\ InSignalNotify
    /\ pc = "recv"
    /\ sock = "half-closed"
    /\ recvs = 0
    /\ buffer = <<>>

\* the bytes of a sequence of frames, one after the other
RECURSIVE Flatten(_)
Flatten(fs) == IF fs = <<>> THEN <<>> ELSE fs[1] \o Flatten(Tail(fs))

\* no newline in f before its last byte
NewlineOnlyLast(f) == \A j \in 1..(Len(f) - 1) : f[j] # Newline

\* f is a line: it ends with its only newline
IsLine(f) == f # <<>> /\ Last(f) = Newline /\ NewlineOnlyLast(f)

\* C35: the frames _read_replies hands over partition the bytes received: the
\* frames so far followed by the buffered bytes are the bytes received, in
\* order, none twice and none dropped; every frame ends with the first
\* newline after the frame before it, or, for the last one, at the end of the
\* stream; and the buffer is empty right after a frame is handed over
C35_FramesPartitionStream ==
    /\ [](InSignalNotify /\ Reading =>
            /\ Flatten(handed) \o Join(buffer) = received
            /\ Len(handed) = frames
            /\ \A k \in 1..Len(handed) :
                  \/ IsLine(handed[k])
                  \/ /\ k = Len(handed)
                     /\ sock = "peer-closed"
                     /\ Newline \notin {handed[k][j] : j \in 1..Len(handed[k])}
            /\ IF pc = "yield"
               THEN IsLine(Join(buffer)) \/ (Last(buffer) = EndOfStream /\ buffer # <<>>)
               ELSE Newline \notin {buffer[j] : j \in 1..Len(buffer)})
    /\ [][(InSignalNotify /\ pc = "yield") =>
            /\ handed' = (IF pc' = "connect" THEN <<>> ELSE Append(handed, Join(buffer)))
            /\ pc' = "check" => (buffer' = <<>> /\ received' = received)
      ]_vars

\* a first line was handed over and skipped, and a byte of the next frame is
\* in the buffer
C35_Witness ==
    /\ InSignalNotify
    /\ pc = "check"
    /\ handed = << <<"o", Newline>> >>
    /\ buffer = <<"i">>
    /\ received = <<"o", Newline, "i">>

-----------------------------------------------------------------------------
(* Group.notify, Pushover.notify, the Twilio hooks, the documented timeout:
   claims *)

\* Group.notify has raised its aggregate error
GroupRaised == InGroupNotify /\ pc = "done" /\ IsError(outcome)

\* every sub-channel that failed did so permanently
AllFailuresPermanent ==
    \A i \in 1..Len(calls) :
        CountsAsError(calls[i].error) => calls[i].error \in PermanentChannelErrors

\* C36: the aggregate error of Group.notify is a TransportError that is not
\* permanent, also when every failing sub-channel failed permanently
C36_GroupErrorNotPermanent ==
    GroupRaised =>
        /\ outcome.type = "TransportError"
        /\ ~outcome.permanent

\* both sub-channels of a group failed permanently and the group has raised
C36_Witness ==
    /\ GroupRaised
    /\ Len(calls) = 2
    /\ error_count = 2
    /\ AllFailuresPermanent
    /\ ~outcome.permanent

\* C37: Group.notify passes is_test=True to the notify of every sub-channel
\* when notification.owner is None, and is_test=False to every one otherwise
C37_GroupPassesIsTest ==
    InGroupNotify =>
        /\ is_test = (owner = "None")
        /\ \A i \in 1..Len(calls) : calls[i].is_test = (owner = "None")

\* both sub-channels of a group were notified of a test
C37_Witness ==
    /\ InGroupNotify
    /\ owner = "None"
    /\ Len(calls) = 2
    /\ calls[1].is_test
    /\ calls[2].is_test

\* Pushover.notify runs for an up event on a channel whose down priority is 2
\* and has passed the token check and the rate limiter
EmergencyUp ==
    /\ called = "notify"
    /\ cls = "Pushover"
    /\ event = [new_status |-> "up", down_prio |-> "2"]
    /\ config_check = "ok"
    /\ authorize_calls = <<TRUE>>

\* C38: for an up event on a channel whose down priority is 2, Pushover.notify
\* posts the cancel call first and the message call only after the cancel call
\* has succeeded; each of the two posts has its own budget of 3 attempts (at
\* most 6 in all); when the cancel call fails, its error is raised and no
\* message call is made
C38_CancelBeforeMessage ==
    EmergencyUp =>
        /\ url \in {"cancel", "messages"}
        /\ Len(results) <= 2
        /\ Len(attempts) <= 3
        /\ pc = "request" => (retry /\ tries_left = 3 - Len(attempts))
        /\ url = "cancel" =>
              \/ pc = "request" /\ results = <<>>
              \/ pc = "cancelled" /\ results = <<Ok>>
              \/ /\ pc = "done"
                 /\ Len(results) = 1
                 /\ IsError(results[1])
                 /\ outcome = results[1]
        /\ url = "messages" =>
              /\ results # <<>>
              /\ results[1] = Ok
              /\ \/ pc = "request" /\ Len(results) = 1
                 \/ pc = "done" /\ Len(results) = 2 /\ outcome = results[2]

\* the cancel call succeeded and the message call has failed three times
C38_Witness ==
    /\ EmergencyUp
    /\ url = "messages"
    /\ pc = "done"
    /\ results[1] = Ok
    /\ Len(attempts) = 3
    /\ IsError(outcome)

\* an attempt answered with HTTP 400 and a body that decodes to code 21211
InvalidPhoneNumber(a) == a.status_code = 400 /\ a.code = 21211

\* C39: in Sms, Call and WhatsApp an attempt answered with HTTP 400 and a body
\* that decodes to code 21211 fails with the permanent error "Invalid phone
\* number" (the except ValidationError clause does not catch it), no attempt
\* follows it and notify raises it, so that such an answer to the first
\* attempt leaves exactly 1 attempt; an attempt answered with any other
\* non-success status, or with 400 and another code or an undecodable body,
\* fails with the transient "Received status code" error
C39_TwilioInvalidNumberPermanent ==
    (called = "notify" /\ cls \in TwilioClasses) =>
        \A i \in 1..Len(attempts) :
            LET a == attempts[i] IN
            IF InvalidPhoneNumber(a)
            THEN /\ a.result = TransportError(Msg("Invalid phone number", 0, ""), TRUE)
                 /\ i = Len(attempts)
                 /\ pc = "done"
                 /\ outcome = a.result
            ELSE (a.status_code # 0 /\ a.status_code \notin SuccessCodes) =>
                    /\ a.result = TransportError(Msg("Received status code", a.status_code, ""),
                                                 FALSE)
                    /\ Transient(a.result)

\* Call.notify has ended after a single attempt that Twilio answered with 400
\* and code 21211
C39_Witness ==
    /\ called = "notify"
    /\ cls = "Call"
    /\ pc = "done"
    /\ Len(attempts) = 1
    /\ InvalidPhoneNumber(attempts[1])
    /\ Permanent(outcome)
    /\ outcome.message.text = "Invalid phone number"

\* the timeout that the docstring of Signal._read_replies documents
DocumentedTimeout == 15

\* this step is a s.sendall or s.recv call that took more than seconds
SlowSocketOp(seconds) ==
    /\ InSignalNotify
    /\ pc \in {"sendall", "recv"}
    /\ clock' - clock > seconds

\* C40: as the docstring of _read_replies says, a sendall or recv call that
\* takes more than 15 seconds ends the method with the error of a socket
\* timeout, and the elapsed-time check raises "signal-cli call timed out" when
\* more than 15 seconds have been spent in the method
C40_DocumentedTimeout ==
    [][ /\ SlowSocketOp(DocumentedTimeout) =>
              /\ SendEnding
              /\ EndedWith = OSErrorTransportError("timed out")
        /\ (InSignalNotify /\ pc = "check" /\ clock - start > DocumentedTimeout) =>
              RaisesTimedOut
      ]_vars

====
